---- MODULE Spec2Model ----
(***************************************************************************)
(* Telemetry session of apples2oranges: run_generation_turn, the           *)
(* aggregator loop start_enhanced_monitoring, the inference task with its  *)
(* cooldown gate, and the stop_generation command.                         *)
(*                                                                         *)
(* Temperatures and margins are whole degrees, elapsed time whole seconds  *)
(* (Duration::as_secs), sampling frequencies tenths of a hertz.            *)
(***************************************************************************)
EXTENDS Integers, Sequences, FiniteSets, TLC

VARIABLES
    config,                 \* GenerationConfig of the session
    GLOBAL_STOP_SIGNAL,     \* process-wide slot: None or Some(the flag of a session)
    other_pc,               \* position of another run_generation_turn in the process
    other_stop_signal,      \* that session's AtomicBool
    stop_signal,            \* the session's AtomicBool
    prewarm_stop_signal,    \* the warm-up monitor's own AtomicBool
    main_pc,                \* position of run_generation_turn
    inf_pc,                 \* position of the inference task (spawn_blocking)
    result,                 \* Result returned by the inference task
    job,                    \* state of run_model_inference per model label
    tokens,                 \* tokens generated by the job in progress
    baseline_cpu_max,       \* Option<f64> recorded before Model A
    elapsed,                \* start_wait.elapsed().as_secs()
    polls,                  \* temperature reads done by the cooldown loop
    cooldown_read,          \* result of the loop's latest read_core_temperatures()
    events,                 \* cooldown_update events emitted on the window
    agg,                    \* the two start_enhanced_monitoring tasks
    command_rx,             \* per task: receiver of the command channel
    CURRENT_TELEMETRY,      \* latest-snapshot cell
    host,                   \* what the machine's sensors and macmon pipe can yield
    event_handle,           \* telemetry event emitter task
    calculator,             \* a PowerCalculator (its five fields)
    calculator_call,        \* the latest method called on it
    telemetry_in,           \* TelemetryUpdate passed to the latest update_with_telemetry
    telemetry_out,          \* TelemetryUpdate returned by the latest update_with_telemetry
    sysctl,                 \* what the platform answers to the three sysctl queries
    total_cores,            \* argument of detect_apple_silicon_configuration
    silicon_info,           \* AppleSiliconInfo it returned
    iohid,                  \* the IOHID client and the temperature services it lists
    core_temperature_data,  \* Result returned by read_core_temperatures
    cpu_monitor,            \* a CpuUtilizationMonitor: system.cpus(), p_core_count, e_core_count
    cpu_utilization,        \* triple returned by get_cpu_utilization
    temp_history,           \* a TemperatureHistory: readings, max_size
    added,                  \* every reading passed to add_reading, in call order
    thermal_trend,          \* window and ThermalTrend of the latest get_trend
    base_telemetry,         \* the TelemetryUpdate a job finds in CURRENT_TELEMETRY
    inference_args,         \* arguments and clock of the latest with_inference_data
    merged                  \* TelemetryUpdate returned by with_inference_data

(* state of the session (run_generation_turn and the tasks it spawns) *)
OtherSession == << other_pc, other_stop_signal >>
Session == << OtherSession, host, config, GLOBAL_STOP_SIGNAL, stop_signal, prewarm_stop_signal,
              main_pc, inf_pc, result, job, tokens, baseline_cpu_max, elapsed,
              polls, cooldown_read, events, agg, command_rx, CURRENT_TELEMETRY, event_handle >>

(* state of the library objects exercised one at a time *)
PowerVars == << calculator, calculator_call, telemetry_in, telemetry_out >>
TopologyVars == << sysctl, total_cores, silicon_info >>
SensorVars == << iohid, core_temperature_data >>
UtilizationVars == << cpu_monitor, cpu_utilization >>
HistoryVars == << temp_history, added, thermal_trend >>
MergeVars == << base_telemetry, inference_args, merged >>
Library == << PowerVars, TopologyVars, SensorVars, UtilizationVars, HistoryVars, MergeVars >>

vars == << Library, OtherSession, host, config, GLOBAL_STOP_SIGNAL, stop_signal, prewarm_stop_signal,
           main_pc, inf_pc, result, job, tokens, baseline_cpu_max, elapsed,
           polls, cooldown_read, events, agg, command_rx, CURRENT_TELEMETRY, event_handle >>


-----------------------------------------------------------------------------
(* Option<T> *)
None == << >>
Some(v) == << v >>
IsSome(o) == o # None
UnwrapOr(o, d) == IF o = None THEN d ELSE o[1]

Min(a, b) == IF a <= b THEN a ELSE b
Max(a, b) == IF a >= b THEN a ELSE b

-----------------------------------------------------------------------------
(* Bounds of the exploration *)
MaxPolls == 3       \* polls after which the next sleep overruns the cap
MaxTokens == 1      \* tokens generated per job
MaxTicks == 2       \* ticks per aggregator task

(* Inputs *)
Temps == {50, 52, 53, 55}               \* cpu_temp_max readings
MarginInputs == {None, Some(-1), Some(25), Some(-30)}
SleepDelays == {1, 150, 300}            \* seconds a 1000 ms sleep may take
Targets == {"A", "B", "Both", "X"}
HzInputs == {None, Some(20)}            \* tenths of a hertz
FrequencyInputs == {None, Some(10), Some(20), Some(0), Some(-5), Some(600)}

(* Program constants *)
MAX_WAIT_SECS == 300
MARGIN_DEFAULT == 2
MARGIN_MIN == -20
MARGIN_MAX == 20
HZ_DEFAULT == 10
HZ_MIN == 1
HZ_MAX == 500
PREWARM_HZ == 10

Monitors == {"prewarm", "main"}

-----------------------------------------------------------------------------
(* Configuration-derived values *)
disable_telemetry == config.run_without_telemetry
wait_for_cooldown == config.wait_for_cpu_baseline_between_models
margin_c_Unclamped == UnwrapOr(config.wait_for_cpu_baseline_margin_c, MARGIN_DEFAULT)

(* margin_c_raw.max(-20.0).min(20.0), generation.rs 253-257 *)
margin_c == Min(Max(UnwrapOr(config.wait_for_cpu_baseline_margin_c, MARGIN_DEFAULT), MARGIN_MIN), MARGIN_MAX)
ClampHz_NoUpper(h) == Max(UnwrapOr(h, HZ_DEFAULT), HZ_MIN)

(* unwrap_or(1.0).max(0.1).min(50.0): generation.rs 67, hardware/mod.rs 54 *)
ClampHz(h) == Min(Max(UnwrapOr(h, HZ_DEFAULT), HZ_MIN), HZ_MAX)
desired_sampling_hz == ClampHz(config.telemetry_sampling_hz)
RestartAtDesired_Always == TRUE

(* (desired_sampling_hz - 1.0).abs() > f32::EPSILON, generation.rs 97 *)
RestartAtDesired == desired_sampling_hz # PREWARM_HZ

(* The flag the slot holds: the session's own or the other session's *)
SlotFlag == IF GLOBAL_STOP_SIGNAL = Some("session") THEN stop_signal ELSE other_stop_signal

(* The flag the cooldown loop and the token loop read through the slot *)
StopRequested == IsSome(GLOBAL_STOP_SIGNAL) /\ SlotFlag

StopFlagOf_Shared(i) == stop_signal

(* The flag an aggregator task was given: generation.rs 84-89, 101-105 *)
StopFlagOf(i) == IF i = "prewarm" THEN prewarm_stop_signal ELSE stop_signal

CooldownUpdateEvent(state, baseline, current, secs) ==
    [ state |-> state, baseline_c |-> Some(baseline), margin_c |-> margin_c,
      threshold_c |-> Some(baseline + margin_c), current_c |-> current,
      elapsed_s |-> Some(secs) ]

(* command_broadcaster.send: every subscribed receiver gets the command *)
SendReset(rx) ==
    [ i \in Monitors |-> IF rx[i] = None THEN None
                         ELSE Some(rx[i][1] + 1) ]

SendResetIfEnabled ==
    command_rx' = IF disable_telemetry THEN command_rx ELSE SendReset(command_rx)

-----------------------------------------------------------------------------
(* run_generation_turn, inference task (generation.rs 199-443) *)

InfReturn(r) ==
    /\ inf_pc' = "done"
    /\ result' = r

(* match config.target: lines 218-220, 235-236, 251-259, 432-434 *)
InfDispatch ==
    /\ inf_pc = "dispatch"
    /\ CASE config.target = "A" ->
              IF config.model_a THEN inf_pc' = "a_reset" /\ UNCHANGED result
              ELSE InfReturn("Err")
         [] config.target = "B" ->
              IF config.model_b THEN inf_pc' = "b_begin" /\ UNCHANGED result
              ELSE InfReturn("Err")
         [] config.target = "Both" ->
              /\ inf_pc' = IF config.model_a
                           THEN (IF wait_for_cooldown THEN "baseline" ELSE "a_reset")
                           ELSE "cd_enter"
              /\ UNCHANGED result
         [] OTHER -> InfReturn("Err")
    /\ UNCHANGED << job, tokens, baseline_cpu_max, elapsed, polls, cooldown_read, events >>
    /\ UNCHANGED << Library, OtherSession, host, config, GLOBAL_STOP_SIGNAL, stop_signal, prewarm_stop_signal,
                    main_pc, agg, command_rx, CURRENT_TELEMETRY, event_handle >>

(* baseline measurement before Model A: lines 261-287 *)
MeasureBaseline ==
    /\ inf_pc = "baseline"
    /\ \/ \E t \in Temps :
              /\ baseline_cpu_max' = Some(t)
              /\ events' = Append(events, CooldownUpdateEvent("started", t, None, 0))
       \/ UNCHANGED << baseline_cpu_max, events >>
    /\ inf_pc' = "a_reset"
    /\ UNCHANGED << result, job, tokens, elapsed, polls, cooldown_read >>
    /\ UNCHANGED << Library, OtherSession, host, config, GLOBAL_STOP_SIGNAL, stop_signal, prewarm_stop_signal,
                    main_pc, agg, command_rx, CURRENT_TELEMETRY, event_handle >>

(* reset command and start of run_model_inference for Model A:
   lines 222-230, 289-298 *)
StartModelA ==
    /\ inf_pc = "a_reset"
    /\ SendResetIfEnabled
    /\ job' = [job EXCEPT !.A = "running"]
    /\ tokens' = 0
    /\ inf_pc' = "a_run"
    /\ UNCHANGED << result, baseline_cpu_max, elapsed, polls, cooldown_read, events >>
    /\ UNCHANGED << Library, OtherSession, host, config, GLOBAL_STOP_SIGNAL, stop_signal, prewarm_stop_signal,
                    main_pc, agg, CURRENT_TELEMETRY, event_handle >>

(* reset command and start of run_model_inference for Model B:
   lines 236-246, 418-428 *)
StartModelB ==
    /\ inf_pc = "b_begin"
    /\ IF config.model_b
       THEN /\ SendResetIfEnabled
            /\ job' = [job EXCEPT !.B = "running"]
            /\ tokens' = 0
            /\ inf_pc' = "b_run"
            /\ UNCHANGED result
       ELSE /\ InfReturn("Ok")
            /\ UNCHANGED << command_rx, job, tokens >>
    /\ UNCHANGED << baseline_cpu_max, elapsed, polls, cooldown_read, events >>
    /\ UNCHANGED << Library, OtherSession, host, config, GLOBAL_STOP_SIGNAL, stop_signal, prewarm_stop_signal,
                    main_pc, agg, CURRENT_TELEMETRY, event_handle >>

RunningLabel == IF inf_pc = "a_run" THEN "A" ELSE "B"

(* TelemetryUpdate::with_inference_data: a new value carrying the base's
   hardware fields and the job's model label, telemetry/types.rs 169-211 *)
WithInferenceData(base, label) == [base EXCEPT !.model = Some(label)]

CellAfterToken_Stores(cell, label) ==
    IF disable_telemetry \/ cell = None THEN cell
    ELSE Some(WithInferenceData(cell[1], label))

(* the cell after the job has merged its metrics into the latest snapshot and
   sent the result on the bus: CURRENT_TELEMETRY.read() only,
   inference/generation.rs 293-390 *)
CellAfterToken(cell, label) == cell

(* one iteration of the token loop, inference/generation.rs 248-263:
   the loop breaks when the stop flag is seen *)
GenerateToken ==
    /\ inf_pc \in {"a_run", "b_run"}
    /\ ~StopRequested
    /\ tokens < MaxTokens
    /\ tokens' = tokens + 1
    /\ CURRENT_TELEMETRY' = CellAfterToken(CURRENT_TELEMETRY, RunningLabel)
    /\ UNCHANGED << inf_pc, result, job, baseline_cpu_max, elapsed, polls, cooldown_read, events >>
    /\ UNCHANGED << Library, OtherSession, host, config, GLOBAL_STOP_SIGNAL, stop_signal, prewarm_stop_signal,
                    main_pc, agg, command_rx, event_handle >>

(* the blocking task panics while it runs: inference_handle.await yields
   Err(JoinError), line 450 *)
InferencePanics ==
    /\ inf_pc \notin { "unspawned", "done" }
    /\ InfReturn("Panicked")
    /\ UNCHANGED << job, tokens, baseline_cpu_max, elapsed, polls, cooldown_read, events >>
    /\ UNCHANGED << Library, OtherSession, host, config, GLOBAL_STOP_SIGNAL, stop_signal, prewarm_stop_signal,
                    main_pc, agg, command_rx, CURRENT_TELEMETRY, event_handle >>

(* run_model_inference returns; the caller applies `?`: lines 230, 246, 298, 428 *)
ModelReturns ==
    /\ inf_pc \in {"a_run", "b_run"}
    /\ \E r \in {"ok", "err"} :
          /\ job' = [job EXCEPT ![RunningLabel] = r]
          /\ IF r = "err" THEN InfReturn("Err")
             ELSE IF inf_pc = "a_run" /\ config.target = "Both"
                  THEN inf_pc' = "cd_enter" /\ UNCHANGED result
                  ELSE InfReturn("Ok")
    /\ UNCHANGED << tokens, baseline_cpu_max, elapsed, polls, cooldown_read, events >>
    /\ UNCHANGED << Library, OtherSession, host, config, GLOBAL_STOP_SIGNAL, stop_signal, prewarm_stop_signal,
                    main_pc, agg, command_rx, CURRENT_TELEMETRY, event_handle >>

-----------------------------------------------------------------------------
(* Cooldown gate between Model A and Model B (generation.rs 302-416) *)

Ok(t) == << "Ok", t >>
Err == << "Err" >>

Baseline == baseline_cpu_max[1]
Threshold == Baseline + margin_c

CooldownRequired_Never == FALSE

(* if wait_for_cooldown { if let Some(baseline) = baseline_cpu_max, lines 303-304 *)
CooldownRequired == wait_for_cooldown /\ IsSome(baseline_cpu_max)

CooledDown_Strict(current_max, threshold) == current_max < threshold

(* current_max <= threshold, line 356 *)
CooledDown(current_max, threshold) == current_max <= threshold

TimedOut_Inverted(secs) == secs <= MAX_WAIT_SECS

(* start_wait.elapsed().as_secs() >= MAX_WAIT_SECS, line 393 *)
TimedOut(secs) == secs >= MAX_WAIT_SECS

AfterReadError_Retry == "cd_sleep"

(* where the loop goes when the read fails: break, line 389 *)
AfterReadError == "b_begin"

(* lines 303-309 *)
CdEnter ==
    /\ inf_pc = "cd_enter"
    /\ IF CooldownRequired
       THEN inf_pc' = "cd_check" /\ elapsed' = 0
       ELSE inf_pc' = "b_begin" /\ UNCHANGED elapsed
    /\ UNCHANGED << result, job, tokens, baseline_cpu_max, polls, cooldown_read, events >>
    /\ UNCHANGED << Library, OtherSession, host, config, GLOBAL_STOP_SIGNAL, stop_signal, prewarm_stop_signal,
                    main_pc, agg, command_rx, CURRENT_TELEMETRY, event_handle >>

(* cancellation check at the top of a poll: lines 312-333 *)
CdCheck ==
    /\ inf_pc = "cd_check"
    /\ IF StopRequested
       THEN /\ events' = Append(events, CooldownUpdateEvent("canceled", Baseline, None, elapsed))
            /\ inf_pc' = "b_begin"
       ELSE /\ inf_pc' = "cd_read"
            /\ UNCHANGED events
    /\ UNCHANGED << result, job, tokens, baseline_cpu_max, elapsed, polls, cooldown_read >>
    /\ UNCHANGED << Library, OtherSession, host, config, GLOBAL_STOP_SIGNAL, stop_signal, prewarm_stop_signal,
                    main_pc, agg, command_rx, CURRENT_TELEMETRY, event_handle >>

(* the events of a poll whose read succeeded, and where it goes: lines 336-373, 393-411 *)
PollOk_TimeoutFirst(current_max) ==
    LET progress == CooldownUpdateEvent("progress", Baseline, Some(current_max), elapsed)
    IN  IF TimedOut(elapsed)
        THEN /\ events' = events \o << progress,
                     CooldownUpdateEvent("timeout", Baseline, None, MAX_WAIT_SECS) >>
             /\ inf_pc' = "b_begin"
        ELSE IF CooledDown(current_max, Threshold)
        THEN /\ events' = events \o << progress,
                     CooldownUpdateEvent("complete", Baseline, Some(current_max), elapsed) >>
             /\ inf_pc' = "b_begin"
        ELSE /\ events' = Append(events, progress)
             /\ inf_pc' = "cd_sleep"
PollOk(current_max) ==
    LET progress == CooldownUpdateEvent("progress", Baseline, Some(current_max), elapsed)
    IN  IF CooledDown(current_max, Threshold)
        THEN /\ events' = events \o << progress,
                     CooldownUpdateEvent("complete", Baseline, Some(current_max), elapsed) >>
             /\ inf_pc' = "b_begin"
        ELSE IF TimedOut(elapsed)
        THEN /\ events' = events \o << progress,
                     CooldownUpdateEvent("timeout", Baseline, None, MAX_WAIT_SECS) >>
             /\ inf_pc' = "b_begin"
        ELSE /\ events' = Append(events, progress)
             /\ inf_pc' = "cd_sleep"

(* read failure: lines 374-391 *)
PollErr ==
    /\ events' = Append(events, CooldownUpdateEvent("canceled", Baseline, None, elapsed))
    /\ inf_pc' = AfterReadError

(* read_core_temperatures().await and what follows it up to the sleep *)
CdRead ==
    /\ inf_pc = "cd_read"
    /\ \E r \in {Ok(t) : t \in Temps} \cup {Err} :
          /\ cooldown_read' = r
          /\ IF r = Err THEN PollErr ELSE PollOk(r[2])
    /\ polls' = polls + 1
    /\ UNCHANGED << result, job, tokens, baseline_cpu_max, elapsed >>
    /\ UNCHANGED << Library, OtherSession, host, config, GLOBAL_STOP_SIGNAL, stop_signal, prewarm_stop_signal,
                    main_pc, agg, command_rx, CURRENT_TELEMETRY, event_handle >>

(* tokio::time::sleep(POLL_INTERVAL_MS), line 411: at least one second passes *)
CdSleep ==
    /\ inf_pc = "cd_sleep"
    /\ \E d \in SleepDelays :
          /\ polls < MaxPolls \/ elapsed + d >= MAX_WAIT_SECS
          /\ elapsed' = elapsed + d
    /\ inf_pc' = "cd_check"
    /\ UNCHANGED << result, job, tokens, baseline_cpu_max, polls, cooldown_read, events >>
    /\ UNCHANGED << Library, OtherSession, host, config, GLOBAL_STOP_SIGNAL, stop_signal, prewarm_stop_signal,
                    main_pc, agg, command_rx, CURRENT_TELEMETRY, event_handle >>

-----------------------------------------------------------------------------
(* start_enhanced_monitoring (hardware/mod.rs 47-339), one task per monitor *)

PowerInputs == {None, Some(1)}          \* cpu_power of a macmon record, watts

(* PowerCalculator::new / reset: power_calculator.rs 28-36, 79-85 *)
NewCalculator == [ previous_telemetry |-> None, cumulative_cpu_energy |-> 0 ]

(* PowerCalculator::update_with_telemetry, CPU domain, one time unit per tick:
   power_calculator.rs 40-76 *)
UpdateWithTelemetry(calc, cpu_power) ==
    LET prev == calc.previous_telemetry
        accrues == IsSome(prev) /\ IsSome(prev[1]) /\ IsSome(cpu_power)
        energy == IF accrues
                  THEN calc.cumulative_cpu_energy + (prev[1][1] + cpu_power[1]) \div 2
                  ELSE calc.cumulative_cpu_energy
    IN  [ previous_telemetry |-> Some(cpu_power), cumulative_cpu_energy |-> energy ]

GIB == 1073741824                       \* 1024.0 * 1024.0 * 1024.0

(* CoreTemperatureData values read_core_temperatures() can return *)
CoreTemps ==
    { [ cpu_temp_avg |-> 50, cpu_temp_max |-> 55, gpu_temp_avg |-> g ] :
          g \in {None, Some(45)} }
NativeReads == { Ok(c) : c \in CoreTemps } \cup { Err }

(* MacmonOutput values: temp, cpu_power, pcpu_usage, memory *)
MacmonRecord(power, present) ==
    [ cpu_power |-> power,
      temp |-> IF present THEN Some([ cpu_temp_avg |-> Some(60), gpu_temp_avg |-> Some(61) ])
               ELSE None,
      pcpu_usage |-> IF present THEN Some(<< 3000, 40 >>) ELSE None,
      memory |-> IF present THEN Some([ ram_usage |-> Some(GIB) ]) ELSE None ]
MacmonRecords == { MacmonRecord(p, present) : p \in PowerInputs, present \in BOOLEAN }

(* what timeout(100 ms, reader.next_line()) yields: a line of text, end of
   stream, a read error, or the timeout *)
JsonLine(r) == << "line", "json", r >>
GarbageLine == << "line", "garbage" >>
Timeout == << "timeout" >>
Eof == << "eof" >>
ReadError == << "error" >>
NoReader == << "no_reader" >>
ReadOutcomes ==
    { JsonLine(r) : r \in MacmonRecords } \cup { GarbageLine, Timeout, Eof, ReadError }

(* serde_json::from_str::<MacmonOutput>(&line), line 129 *)
FromStr(line) == IF line[2] = "json" THEN Ok(line[3]) ELSE Err

(* macmon_data after the match of lines 127-158 *)
MacmonData(outcome) ==
    IF outcome[1] = "line" /\ FromStr(outcome)[1] = "Ok"
    THEN Some(FromStr(outcome)[2])
    ELSE None

(* Option::and_then over the record's optional parts *)
RecordPower(m) == IF m = None THEN None ELSE m[1].cpu_power
RecordCpuTemp(m) ==
    IF m = None \/ m[1].temp = None THEN None ELSE m[1].temp[1].cpu_temp_avg
RecordGpuTemp(m) ==
    IF m = None \/ m[1].temp = None THEN None ELSE m[1].temp[1].gpu_temp_avg
RecordCpuFreq(m) ==
    IF m = None \/ m[1].pcpu_usage = None THEN None ELSE Some(m[1].pcpu_usage[1][1])
RecordRamGb(m) ==
    IF m = None \/ m[1].memory = None \/ m[1].memory[1].ram_usage = None THEN None
    ELSE Some(m[1].memory[1].ram_usage[1] \div GIB)

ChildAfterRead_GarbageEnds(child, outcome) ==
    IF outcome \in { Eof, GarbageLine } THEN "exited" ELSE child

(* the macmon process and its pipe after a read: only the end of the stream
   tells that the process is gone; nothing in lines 127-158 closes the reader *)
ChildAfterRead(child, outcome) == IF outcome = Eof THEN "exited" ELSE child

OrElse_Second(o, alt) == IF IsSome(alt) THEN alt ELSE o

(* Option::or_else, line 181 *)
OrElse(o, alt) == IF IsSome(o) THEN o ELSE alt

(* the TelemetryUpdate of a tick whose native read succeeded, lines 167-249 *)
CombineOk(timestamp, core_temps, macmon_data) ==
    [ timestamp_ms |-> timestamp,
      cpu_power_watts |-> RecordPower(macmon_data),
      cpu_temp_celsius |-> Some(core_temps.cpu_temp_avg),
      gpu_temp_celsius |-> OrElse(core_temps.gpu_temp_avg, RecordGpuTemp(macmon_data)),
      cpu_freq_mhz |-> RecordCpuFreq(macmon_data),
      ram_usage_gb |-> RecordRamGb(macmon_data),
      cpu_temp_avg |-> Some(core_temps.cpu_temp_avg),
      cpu_temp_max |-> Some(core_temps.cpu_temp_max),
      gpu_temp_avg |-> core_temps.gpu_temp_avg,
      core_temperatures |-> Some(core_temps),
      model |-> None ]

(* the TelemetryUpdate of a tick whose native read failed, lines 250-301 *)
CombineErr(timestamp, macmon_data) ==
    [ timestamp_ms |-> timestamp,
      cpu_power_watts |-> RecordPower(macmon_data),
      cpu_temp_celsius |-> RecordCpuTemp(macmon_data),
      gpu_temp_celsius |-> RecordGpuTemp(macmon_data),
      cpu_freq_mhz |-> RecordCpuFreq(macmon_data),
      ram_usage_gb |-> RecordRamGb(macmon_data),
      cpu_temp_avg |-> RecordCpuTemp(macmon_data),
      cpu_temp_max |-> None,
      gpu_temp_avg |-> RecordGpuTemp(macmon_data),
      core_temperatures |-> None,
      model |-> None ]

Combine_FallbackEmpty(timestamp, core_temp_result, macmon_data) ==
    IF core_temp_result[1] = "Ok"
    THEN CombineOk(timestamp, core_temp_result[2], macmon_data)
    ELSE CombineErr(timestamp, None)

(* let telemetry = match core_temp_result, line 166 *)
Combine(timestamp, core_temp_result, macmon_data) ==
    IF core_temp_result[1] = "Ok"
    THEN CombineOk(timestamp, core_temp_result[2], macmon_data)
    ELSE CombineErr(timestamp, macmon_data)

IntervalMs_Inverted(hz) == hz \div 10000

(* (1000.0 / sampling_hz) as u64, line 55; frequencies in tenths of a hertz *)
IntervalMs(hz) == 10000 \div hz

(* the sampling_frequency_hz argument of the task: generation.rs 91, 106 *)
FrequencyArg(i) == IF i = "prewarm" THEN Some(PREWARM_HZ) ELSE Some(desired_sampling_hz)

NoMonitor == [ pc |-> "unspawned", abort |-> FALSE, macmon_child |-> "none",
               ticks |-> 0, power_calculator |-> NewCalculator,
               sampling_hz |-> 0, sampling_interval_ms |-> 0,
               now |-> 0, timestamp |-> 0,
               core_temp_result |-> None, outcome |-> None, macmon_data |-> None ]

Other == << Library, OtherSession, inf_pc, result, job, tokens, baseline_cpu_max, elapsed, polls,
            cooldown_read, events, host, config, GLOBAL_STOP_SIGNAL, stop_signal,
            prewarm_stop_signal, main_pc, event_handle >>

(* first poll of the task: lines 53-94; TokioCommand::spawn may fail *)
AggStart(i) ==
    /\ agg[i].pc = "spawned"
    /\ ~agg[i].abort
    /\ \E spawned \in BOOLEAN :
          agg' = [agg EXCEPT ![i].pc = "loop_top",
                             ![i].sampling_hz = ClampHz(FrequencyArg(i)),
                             ![i].sampling_interval_ms = IntervalMs(ClampHz(FrequencyArg(i))),
                             ![i].macmon_child = IF spawned THEN "running" ELSE "none"]
    /\ command_rx' = [command_rx EXCEPT ![i] = Some(0)]
    /\ UNCHANGED CURRENT_TELEMETRY
    /\ UNCHANGED Other

(* while !stop_signal.load(): flag seen set, lines 96 and 332-338 *)
AggExit(i) ==
    /\ agg[i].pc = "loop_top"
    /\ StopFlagOf(i)
    /\ agg' = [agg EXCEPT ![i].pc = "stopped",
                           ![i].macmon_child = IF @ = "running" THEN "killed" ELSE @]
    /\ command_rx' = [command_rx EXCEPT ![i] = None]
    /\ UNCHANGED CURRENT_TELEMETRY
    /\ UNCHANGED Other

(* top of a tick: flag seen clear, pending commands drained, timestamp taken,
   lines 96-113 *)
AggTickBegin(i) ==
    /\ agg[i].pc = "loop_top"
    /\ ~StopFlagOf(i)
    /\ agg[i].ticks < MaxTicks
    /\ agg' = [agg EXCEPT ![i].pc = "sampling",
                           ![i].timestamp = agg[i].now,
                           ![i].power_calculator =
                               IF command_rx[i][1] > 0 THEN NewCalculator ELSE @]
    /\ command_rx' = [command_rx EXCEPT ![i] = Some(0)]
    /\ UNCHANGED CURRENT_TELEMETRY
    /\ UNCHANGED Other

(* what the read of the macmon pipe can yield in this tick, lines 125-162 *)
OutcomesNow(i) ==
    IF agg[i].macmon_child = "running" THEN host.outcomes
    ELSE IF agg[i].macmon_child = "exited" THEN { Eof }
    ELSE { NoReader }

(* the rest of a tick after the sampling awaits: merge, integration, store,
   broadcast, lines 116-326 *)
TickEnd(i) ==
    /\ agg[i].pc = "sampling"
    /\ \E core_temp_result \in host.native, outcome \in OutcomesNow(i) :
          LET macmon_data == MacmonData(outcome)
              telemetry == Combine(agg[i].timestamp, core_temp_result, macmon_data)
              calc == UpdateWithTelemetry(agg[i].power_calculator, telemetry.cpu_power_watts)
              telemetry_with_energy ==
                  [ source |-> i, seq |-> agg[i].ticks + 1,
                    cpu_energy_wh |-> calc.cumulative_cpu_energy ] @@ telemetry
          IN  /\ agg' = [agg EXCEPT ![i].pc = "sleeping",
                                    ![i].ticks = @ + 1,
                                    ![i].power_calculator = calc,
                                    ![i].core_temp_result = core_temp_result,
                                    ![i].outcome = outcome,
                                    ![i].macmon_data = macmon_data,
                                    ![i].macmon_child = ChildAfterRead(@, outcome)]
              /\ CURRENT_TELEMETRY' = Some(telemetry_with_energy)
    /\ UNCHANGED command_rx
    /\ UNCHANGED Other

AggTickEnd(i) ==
    /\ ~agg[i].abort
    /\ TickEnd(i)

(* JoinHandle::abort only schedules the cancellation: a task that is being
   polled when it is called, past the last await of its tick (line 128), runs
   on to its next await, the sleep of line 329, and publishes on the way *)
AggTickEndAborting(i) ==
    /\ agg[i].abort
    /\ TickEnd(i)

(* tokio::time::sleep(sampling_interval_ms) returns, line 329: the wall clock
   has advanced by the interval at least *)
AggWake(i) ==
    /\ agg[i].pc = "sleeping"
    /\ ~agg[i].abort
    /\ agg' = [agg EXCEPT ![i].pc = "loop_top",
                           ![i].now = @ + agg[i].sampling_interval_ms]
    /\ UNCHANGED << command_rx, CURRENT_TELEMETRY >>
    /\ UNCHANGED Other

(* JoinHandle::abort takes effect at an await: the future is dropped, and with
   it the Child (no kill_on_drop) and the command receiver *)
AggDropped(i) ==
    /\ agg[i].abort
    /\ agg[i].pc \in {"spawned", "sampling", "sleeping"}
    /\ agg' = [agg EXCEPT ![i].pc = "aborted"]
    /\ command_rx' = [command_rx EXCEPT ![i] = None]
    /\ UNCHANGED CURRENT_TELEMETRY
    /\ UNCHANGED Other

-----------------------------------------------------------------------------
(* run_generation_turn (commands/generation.rs 35-478) *)

InfUnchanged == UNCHANGED << inf_pc, result, job, tokens, baseline_cpu_max, elapsed, polls, cooldown_read, events >>

(* lines 50-58 *)
InstallStopSignal ==
    /\ main_pc = "start"
    /\ GLOBAL_STOP_SIGNAL' = Some("session")
    /\ main_pc' = IF disable_telemetry THEN "spawn_inference" ELSE "spawn_prewarm"
    /\ InfUnchanged
    /\ UNCHANGED << Library, OtherSession, host, config, stop_signal, prewarm_stop_signal, agg, command_rx,
                    CURRENT_TELEMETRY, event_handle >>

(* lines 84-94 *)
SpawnPrewarm ==
    /\ main_pc = "spawn_prewarm"
    /\ agg' = [agg EXCEPT !["prewarm"].pc = "spawned"]
    /\ main_pc' = IF RestartAtDesired THEN "stop_prewarm" ELSE "spawn_emitter"
    /\ InfUnchanged
    /\ UNCHANGED << Library, OtherSession, host, config, GLOBAL_STOP_SIGNAL, stop_signal, prewarm_stop_signal,
                    command_rx, CURRENT_TELEMETRY, event_handle >>

(* lines 97-100 *)
StopPrewarm ==
    /\ main_pc = "stop_prewarm"
    /\ prewarm_stop_signal' = TRUE
    /\ main_pc' = "spawn_monitor"
    /\ InfUnchanged
    /\ UNCHANGED << Library, OtherSession, host, config, GLOBAL_STOP_SIGNAL, stop_signal, agg, command_rx,
                    CURRENT_TELEMETRY, event_handle >>

(* lines 101-109 *)
SpawnMonitor ==
    /\ main_pc = "spawn_monitor"
    /\ agg' = [agg EXCEPT !["main"].pc = "spawned"]
    /\ main_pc' = "spawn_emitter"
    /\ InfUnchanged
    /\ UNCHANGED << Library, OtherSession, host, config, GLOBAL_STOP_SIGNAL, stop_signal, prewarm_stop_signal,
                    command_rx, CURRENT_TELEMETRY, event_handle >>

(* lines 116-192 *)
SpawnEmitter ==
    /\ main_pc = "spawn_emitter"
    /\ event_handle' = "running"
    /\ main_pc' = "spawn_inference"
    /\ InfUnchanged
    /\ UNCHANGED << Library, OtherSession, host, config, GLOBAL_STOP_SIGNAL, stop_signal, prewarm_stop_signal,
                    agg, command_rx, CURRENT_TELEMETRY >>

(* lines 199-212 *)
SpawnInference ==
    /\ main_pc = "spawn_inference"
    /\ inf_pc' = "dispatch"
    /\ main_pc' = "await_inference"
    /\ UNCHANGED << result, job, tokens, baseline_cpu_max, elapsed, polls,
                    cooldown_read, events >>
    /\ UNCHANGED << Library, OtherSession, host, config, GLOBAL_STOP_SIGNAL, stop_signal, prewarm_stop_signal,
                    agg, command_rx, CURRENT_TELEMETRY, event_handle >>

(* inference_handle.await, lines 447-451 *)
AwaitInference ==
    /\ main_pc = "await_inference"
    /\ inf_pc = "done"
    /\ main_pc' = "teardown_signal"
    /\ InfUnchanged
    /\ UNCHANGED << Library, OtherSession, host, config, GLOBAL_STOP_SIGNAL, stop_signal, prewarm_stop_signal,
                    agg, command_rx, CURRENT_TELEMETRY, event_handle >>

(* lines 456-460 *)
TeardownSignal ==
    /\ main_pc = "teardown_signal"
    /\ stop_signal' = TRUE
    /\ prewarm_stop_signal' = IF disable_telemetry THEN prewarm_stop_signal ELSE TRUE
    /\ main_pc' = "teardown_abort"
    /\ InfUnchanged
    /\ UNCHANGED << Library, OtherSession, host, config, GLOBAL_STOP_SIGNAL, agg, command_rx,
                    CURRENT_TELEMETRY, event_handle >>

(* lines 462-466 *)
TeardownAbort ==
    /\ main_pc = "teardown_abort"
    /\ agg' = [ i \in Monitors |->
                  IF agg[i].pc = "unspawned" THEN agg[i]
                  ELSE [agg[i] EXCEPT !.abort = TRUE] ]
    /\ event_handle' = IF event_handle = "running" THEN "aborted" ELSE event_handle
    /\ main_pc' = "clear_global"
    /\ InfUnchanged
    /\ UNCHANGED << Library, OtherSession, host, config, GLOBAL_STOP_SIGNAL, stop_signal, prewarm_stop_signal,
                    command_rx, CURRENT_TELEMETRY >>

(* lines 469-477 *)
ClearStopSignal ==
    /\ main_pc = "clear_global"
    /\ GLOBAL_STOP_SIGNAL' = None
    /\ main_pc' = "returned"
    /\ InfUnchanged
    /\ UNCHANGED << Library, OtherSession, host, config, stop_signal, prewarm_stop_signal, agg, command_rx,
                    CURRENT_TELEMETRY, event_handle >>

(* stop_generation command (commands/utils.rs 11-25) *)
stop_generation ==
    /\ IsSome(GLOBAL_STOP_SIGNAL)
    /\ ~SlotFlag
    /\ IF GLOBAL_STOP_SIGNAL = Some("session")
       THEN stop_signal' = TRUE /\ UNCHANGED other_stop_signal
       ELSE other_stop_signal' = TRUE /\ UNCHANGED stop_signal
    /\ InfUnchanged
    /\ UNCHANGED << Library, other_pc, host, config, GLOBAL_STOP_SIGNAL, prewarm_stop_signal, main_pc,
                    agg, command_rx, CURRENT_TELEMETRY, event_handle >>

(* another invocation of run_generation_turn in the same process, seen through
   the slot: it installs its own flag (lines 50-58) *)
OtherInstall ==
    /\ other_pc = "start"
    /\ GLOBAL_STOP_SIGNAL' = Some("other")
    /\ other_pc' = "running"
    /\ InfUnchanged
    /\ UNCHANGED << Library, other_stop_signal, host, config, stop_signal, prewarm_stop_signal,
                    main_pc, agg, command_rx, CURRENT_TELEMETRY, event_handle >>

(* its inference has returned: stop_signal.store(true), line 456 *)
OtherTeardownSignal ==
    /\ other_pc = "running"
    /\ other_stop_signal' = TRUE
    /\ other_pc' = "clear_global"
    /\ InfUnchanged
    /\ UNCHANGED << Library, host, config, GLOBAL_STOP_SIGNAL, stop_signal, prewarm_stop_signal,
                    main_pc, agg, command_rx, CURRENT_TELEMETRY, event_handle >>

(* it empties the slot and returns: lines 469-477 *)
OtherClear ==
    /\ other_pc = "clear_global"
    /\ GLOBAL_STOP_SIGNAL' = None
    /\ other_pc' = "returned"
    /\ InfUnchanged
    /\ UNCHANGED << Library, other_stop_signal, host, config, stop_signal, prewarm_stop_signal,
                    main_pc, agg, command_rx, CURRENT_TELEMETRY, event_handle >>

-----------------------------------------------------------------------------
(* PowerCalculator (telemetry/power_calculator.rs), all three power domains.
   Powers are whole watts, timestamps milliseconds.  An f64 energy is kept in
   two parts: wh4, quarters of a watt-hour (a resolution of 0.25 Wh, exact for
   samples lying a multiple of half an hour apart), and wraps, the watts
   integrated over intervals of 2^64 ms (nonzero only after the u64
   subtraction of line 48 wrapped around). *)

MaxHalfHours == 3                       \* the clock of the samples runs over 0 .. MaxHalfHours half hours

MS_PER_HOUR == 3600000                  \* 3_600_000.0

Wh(n) == 4 * n                          \* n watt-hours, in quarters of a watt-hour

Energy(wh4) == [ wh4 |-> wh4, wraps |-> 0 ]
f64_add(a, b) == [ wh4 |-> a.wh4 + b.wh4, wraps |-> a.wraps + b.wraps ]

(* a - b on u64: the difference, or 2^64 - ms when a < b and the build wraps
   (release); a build with overflow checks (debug) panics instead *)
u64_sub(a, b) ==
    IF a >= b THEN [ wrapped |-> FALSE, ms |-> a - b ] ELSE [ wrapped |-> TRUE, ms |-> b - a ]

Domains == {"cpu", "gpu", "ane"}

Timestamps == { k * (MS_PER_HOUR \div 2) : k \in 0..MaxHalfHours }

(* TelemetryUpdate as the aggregator passes it: the energy fields not yet filled *)
PowerSamples ==
    [ timestamp_ms : Timestamps,
      cpu_power_watts : {None, Some(10), Some(20)},
      gpu_power_watts : {None, Some(10)},
      ane_power_watts : {None, Some(5)},
      total_energy_wh : {None}, cpu_energy_wh : {None},
      gpu_energy_wh : {None}, ane_energy_wh : {None} ]

(* PowerCalculator::new: lines 28-36 *)
PowerCalculator_new ==
    [ previous_telemetry |-> None,
      cumulative_cpu_energy_wh |-> Energy(0),
      cumulative_gpu_energy_wh |-> Energy(0),
      cumulative_ane_energy_wh |-> Energy(0),
      session_start_timestamp |-> None ]

(* (p1 + p2) * dt_hours / 2.0 with dt_hours = dt_ms / 3_600_000.0: lines 48, 52 *)
Trapezoid_Rectangle(p1, p2, dt) ==
    IF dt.wrapped
    THEN [ wh4 |-> 0 - (Wh(p2 * dt.ms) \div MS_PER_HOUR), wraps |-> 2 * p2 ]
    ELSE Energy(Wh(p2 * dt.ms) \div MS_PER_HOUR)
Trapezoid(p1, p2, dt) ==
    IF dt.wrapped
    THEN [ wh4 |-> 0 - (Wh((p1 + p2) * dt.ms) \div (MS_PER_HOUR * 2)), wraps |-> p1 + p2 ]
    ELSE Energy(Wh((p1 + p2) * dt.ms) \div (MS_PER_HOUR * 2))

(* if let (Some(p1), Some(p2)) = (prev.<d>_power_watts, telemetry.<d>_power_watts): lines 51, 55, 59 *)
Accrues_CurrentOnly(p1, p2) == IsSome(p2)
Accrues(p1, p2) == IsSome(p1) /\ IsSome(p2)

(* energy one domain gains in a call that has a previous sample: lines 51-61 *)
DomainEnergy(p1, p2, dt) ==
    IF Accrues(p1, p2) THEN Trapezoid(UnwrapOr(p1, 0), UnwrapOr(p2, 0), dt) ELSE Energy(0)

(* cumulative_cpu_energy_wh + cumulative_gpu_energy_wh + cumulative_ane_energy_wh: lines 65-66 *)
total_energy_CpuGpu(cpu, gpu, ane) == f64_add(cpu, gpu)
total_energy(cpu, gpu, ane) == f64_add(f64_add(cpu, gpu), ane)

(* self.previous_telemetry = Some(telemetry.clone()): line 73 *)
StoredPrevious_LastValued(calc, telemetry) ==
    IF \E f \in {"cpu_power_watts", "gpu_power_watts", "ane_power_watts"} : IsSome(telemetry[f])
    THEN Some(telemetry)
    ELSE calc.previous_telemetry
StoredPrevious(calc, telemetry) == Some(telemetry)

(* PowerCalculator::update_with_telemetry: lines 40-76; yields the calculator
   after the call, the TelemetryUpdate returned, and whether the subtraction of
   line 48 underflowed (the results given are those of a build that wraps) *)
update_with_telemetry(calc, telemetry) ==
    LET session_start == IF IsSome(calc.session_start_timestamp)
                         THEN calc.session_start_timestamp
                         ELSE Some(telemetry.timestamp_ms)
        has_prev == IsSome(calc.previous_telemetry)
        prev == calc.previous_telemetry[1]
        dt == u64_sub(telemetry.timestamp_ms, prev.timestamp_ms)
        cpu == IF has_prev
               THEN f64_add(calc.cumulative_cpu_energy_wh,
                            DomainEnergy(prev.cpu_power_watts, telemetry.cpu_power_watts, dt))
               ELSE calc.cumulative_cpu_energy_wh
        gpu == IF has_prev
               THEN f64_add(calc.cumulative_gpu_energy_wh,
                            DomainEnergy(prev.gpu_power_watts, telemetry.gpu_power_watts, dt))
               ELSE calc.cumulative_gpu_energy_wh
        ane == IF has_prev
               THEN f64_add(calc.cumulative_ane_energy_wh,
                            DomainEnergy(prev.ane_power_watts, telemetry.ane_power_watts, dt))
               ELSE calc.cumulative_ane_energy_wh
        out == [ telemetry EXCEPT !.total_energy_wh = Some(total_energy(cpu, gpu, ane)),
                                  !.cpu_energy_wh = Some(cpu),
                                  !.gpu_energy_wh = Some(gpu),
                                  !.ane_energy_wh = Some(ane) ]
    IN  [ calculator |-> [ previous_telemetry |-> StoredPrevious(calc, out),
                           cumulative_cpu_energy_wh |-> cpu,
                           cumulative_gpu_energy_wh |-> gpu,
                           cumulative_ane_energy_wh |-> ane,
                           session_start_timestamp |-> session_start ],
          telemetry |-> out,
          underflow |-> has_prev /\ dt.wrapped ]

(* PowerCalculator::reset: lines 79-85 *)
reset_KeepsPrevious(calc) ==
    [ calc EXCEPT !.cumulative_cpu_energy_wh = Energy(0), !.cumulative_gpu_energy_wh = Energy(0),
                  !.cumulative_ane_energy_wh = Energy(0) ]
reset(calc) ==
    [ calc EXCEPT !.previous_telemetry = None,
                  !.cumulative_cpu_energy_wh = Energy(0), !.cumulative_gpu_energy_wh = Energy(0),
                  !.cumulative_ane_energy_wh = Energy(0),
                  !.session_start_timestamp = None ]

(* a caller passes the next sample; the samples' clock does not run backwards *)
PowerUpdate ==
    /\ calculator_call # "panicked"
    /\ \E telemetry \in PowerSamples :
        /\ IsSome(telemetry_in) => telemetry.timestamp_ms >= telemetry_in[1].timestamp_ms
        /\ LET r == update_with_telemetry(calculator, telemetry)
           IN  /\ calculator' = r.calculator
               /\ telemetry_out' = Some(r.telemetry)
        /\ telemetry_in' = Some(telemetry)
        /\ calculator_call' = "update_with_telemetry"
    /\ UNCHANGED << Session, TopologyVars, SensorVars, UtilizationVars, HistoryVars, MergeVars >>

(* the calls with any timestamp are explored while every cumulative energy is
   within MaxEnergyWh watt-hours and MaxWrapWatts watts of wrapped intervals *)
MaxEnergyWh == 5
MaxWrapWatts == 10
WithinEnergyCap(calc) ==
    \A e \in { calc.cumulative_cpu_energy_wh, calc.cumulative_gpu_energy_wh,
               calc.cumulative_ane_energy_wh } :
        /\ e.wraps <= MaxWrapWatts
        /\ e.wh4 <= Wh(MaxEnergyWh)
        /\ 0 - e.wh4 <= Wh(MaxEnergyWh)

(* a caller passes a sample with any timestamp.  When the subtraction of line
   48 underflows, a build with overflow checks panics after line 44 and returns
   nothing; a build without them goes on with the wrapped interval *)
PowerUpdateAnyClock ==
    /\ calculator_call # "panicked"
    /\ WithinEnergyCap(calculator)
    /\ \E telemetry \in PowerSamples :
        LET r == update_with_telemetry(calculator, telemetry)
        IN  /\ telemetry_in' = Some(telemetry)
            /\ \/ /\ calculator' = r.calculator
                  /\ telemetry_out' = Some(r.telemetry)
                  /\ calculator_call' = "update_with_telemetry"
               \/ /\ r.underflow
                  /\ calculator' = [ calculator EXCEPT
                                       !.session_start_timestamp = r.calculator.session_start_timestamp ]
                  /\ telemetry_out' = None
                  /\ calculator_call' = "panicked"
    /\ UNCHANGED << Session, TopologyVars, SensorVars, UtilizationVars, HistoryVars, MergeVars >>

(* a caller resets the calculator *)
PowerReset ==
    /\ calculator_call # "panicked"
    /\ calculator' = reset(calculator)
    /\ calculator_call' = "reset"
    /\ UNCHANGED << telemetry_in, telemetry_out >>
    /\ UNCHANGED << Session, TopologyVars, SensorVars, UtilizationVars, HistoryVars, MergeVars >>

-----------------------------------------------------------------------------
(* Apple Silicon detection (hardware/cpu_monitor.rs 136-332).  A string is the
   sequence of its characters. *)

ApplePrefix == << "A", "p", "p", "l", "e", " " >>
Chip(n) == << "M", n >>
Pro == << " ", "P", "r", "o" >>
Max_ == << " ", "M", "a", "x" >>
Ultra == << " ", "U", "l", "t", "r", "a" >>
IntelBrand == << "I", "n", "t", "e", "l" >>
AppleSilicon == << "A", "p", "p", "l", "e", " ", "S", "i", "l", "i", "c", "o", "n" >>
UnknownAppleSilicon == << "U", "n", "k", "n", "o", "w", "n", " ", "A", "p", "p", "l", "e", " ", "S", "i", "l", "i", "c", "o", "n" >>

(* answers of machdep.cpu.brand_string, hw.perflevel0.physicalcpu and
   hw.perflevel1.physicalcpu; None when the key is missing (always, off macOS:
   lines 108-117) *)
BrandStrings ==
    { None, Some(IntelBrand), Some(ApplePrefix \o << "M" >>), Some(ApplePrefix \o << "A", "9" >>),
      Some(ApplePrefix \o Chip("4")), Some(ApplePrefix \o Chip("3") \o Max_),
      Some(ApplePrefix \o Chip("1") \o Pro), Some(ApplePrefix \o Chip("2") \o Ultra) }
SysctlAnswers ==
    [ brand_string : BrandStrings,
      perflevel0 : { None, Some(0), Some(8), Some(12), Some(24), Some(25) },
      perflevel1 : { None, Some(0), Some(4), Some(8), Some(9) } ]
TotalCores == { 0, 7, 8, 9, 10, 11, 12, 13, 14, 16, 20, 21, 24, 28, 32, 40 }

(* APPLE_SILICON_CONFIGS: (chip, total cores) -> (P, E): lines 136-176 *)
APPLE_SILICON_CONFIGS ==
    { << Chip("1"), 8, 4, 4 >>,
      << Chip("1") \o Pro, 8, 6, 2 >>,
      << Chip("1") \o Pro, 10, 8, 2 >>,
      << Chip("1") \o Max_, 10, 8, 2 >>,
      << Chip("1") \o Ultra, 20, 16, 4 >>,
      << Chip("2"), 8, 4, 4 >>,
      << Chip("2") \o Pro, 10, 6, 4 >>,
      << Chip("2") \o Pro, 12, 8, 4 >>,
      << Chip("2") \o Max_, 12, 8, 4 >>,
      << Chip("2") \o Ultra, 24, 16, 8 >>,
      << Chip("3"), 8, 4, 4 >>,
      << Chip("3") \o Pro, 11, 5, 6 >>,
      << Chip("3") \o Pro, 12, 6, 6 >>,
      << Chip("3") \o Max_, 14, 10, 4 >>,
      << Chip("3") \o Max_, 16, 12, 4 >>,
      << Chip("4"), 9, 3, 6 >>,
      << Chip("4"), 10, 4, 6 >>,
      << Chip("4") \o Pro, 12, 8, 4 >>,
      << Chip("4") \o Pro, 14, 10, 4 >>,
      << Chip("4") \o Max_, 14, 10, 4 >>,
      << Chip("4") \o Max_, 16, 12, 4 >>,
      << Chip("4") \o Ultra, 28, 20, 8 >>,
      << Chip("4") \o Ultra, 32, 24, 8 >> }

(* str::strip_prefix *)
strip_prefix(str, prefix) ==
    IF Len(str) >= Len(prefix) /\ SubSeq(str, 1, Len(prefix)) = prefix
    THEN Some(SubSeq(str, Len(prefix) + 1, Len(str)))
    ELSE None

(* parse_apple_chip_model: lines 184-199 *)
parse_apple_chip_model(brand_string) ==
    LET chip_part == strip_prefix(brand_string, ApplePrefix)
    IN  IF IsSome(chip_part)
        THEN IF Len(chip_part[1]) >= 1 /\ chip_part[1][1] = "M" /\ Len(chip_part[1]) >= 2
             THEN Some(chip_part[1])
             ELSE None
        ELSE None

(* get_apple_chip_name: lines 179-182 *)
get_apple_chip_name(sys) ==
    IF IsSome(sys.brand_string) THEN parse_apple_chip_model(sys.brand_string[1]) ELSE None

(* try_sysctl_detection: lines 202-213 *)
try_sysctl_detection_Unvalidated(sys) ==
    IF IsSome(sys.perflevel0) /\ IsSome(sys.perflevel1)
    THEN Some(<< sys.perflevel0[1], sys.perflevel1[1] >>)
    ELSE None
try_sysctl_detection(sys) ==
    IF IsSome(sys.perflevel0) /\ IsSome(sys.perflevel1)
    THEN LET p_cores == sys.perflevel0[1]
             e_cores == sys.perflevel1[1]
         IN  IF p_cores > 0 /\ e_cores > 0 /\ p_cores <= 24 /\ e_cores <= 8
                /\ (p_cores + e_cores) <= 32
             THEN Some(<< p_cores, e_cores >>)
             ELSE None
    ELSE None

(* try_chip_lookup_detection: lines 216-225 *)
try_chip_lookup_detection(sys, total) ==
    LET chip_name == get_apple_chip_name(sys)
    IN  IF IsSome(chip_name)
           /\ \E c \in APPLE_SILICON_CONFIGS : c[1] = chip_name[1] /\ c[2] = total
        THEN LET c == CHOOSE c \in APPLE_SILICON_CONFIGS : c[1] = chip_name[1] /\ c[2] = total
             IN  Some(<< c[3], c[4], chip_name[1] >>)
        ELSE None

(* fallback_core_count_detection: lines 228-251 *)
fallback_core_count_detection_FortySixty(total) ==
    CASE total = 8 -> << 4, 4 >>
      [] total = 9 -> << 3, 6 >>
      [] total = 10 -> << 4, 6 >>
      [] total = 11 -> << 5, 6 >>
      [] total = 12 -> << 8, 4 >>
      [] total = 14 -> << 10, 4 >>
      [] total = 16 -> << 12, 4 >>
      [] total = 20 -> << 16, 4 >>
      [] total = 24 -> << 16, 8 >>
      [] total = 28 -> << 20, 8 >>
      [] total = 32 -> << 24, 8 >>
      [] OTHER -> LET p_cores == (total * 2) \div 5 IN << p_cores, total - p_cores >>
fallback_core_count_detection(total) ==
    CASE total = 8 -> << 4, 4 >>
      [] total = 9 -> << 3, 6 >>
      [] total = 10 -> << 4, 6 >>
      [] total = 11 -> << 5, 6 >>
      [] total = 12 -> << 8, 4 >>
      [] total = 14 -> << 10, 4 >>
      [] total = 16 -> << 12, 4 >>
      [] total = 20 -> << 16, 4 >>
      [] total = 24 -> << 16, 8 >>
      [] total = 28 -> << 20, 8 >>
      [] total = 32 -> << 24, 8 >>
      [] OTHER -> LET p_cores == (total * 3) \div 5 IN << p_cores, total - p_cores >>

(* detect_apple_silicon_configuration: lines 281-332 *)
detect_apple_silicon_configuration(sys, total) ==
    LET tier1 == try_sysctl_detection(sys)
        tier2 == try_chip_lookup_detection(sys, total)
        tier3 == fallback_core_count_detection(total)
    IN  IF IsSome(tier1)
        THEN [ chip_name |-> UnwrapOr(get_apple_chip_name(sys), AppleSilicon),
               total_cores |-> total,
               p_cores |-> tier1[1][1], e_cores |-> tier1[1][2],
               detection_method |-> "SysctlDynamic" ]
        ELSE IF IsSome(tier2)
        THEN [ chip_name |-> tier2[1][3],
               total_cores |-> total,
               p_cores |-> tier2[1][1], e_cores |-> tier2[1][2],
               detection_method |-> "ChipLookup" ]
        ELSE [ chip_name |-> UnwrapOr(get_apple_chip_name(sys), UnknownAppleSilicon),
               total_cores |-> total,
               p_cores |-> tier3[1], e_cores |-> tier3[2],
               detection_method |-> "TotalCountHeuristic" ]

(* CpuUtilizationMonitor::new calls the detection (line 353); calling it again
   asks the platform the same questions *)
Detect ==
    /\ silicon_info' = Some(detect_apple_silicon_configuration(sysctl, total_cores))
    /\ UNCHANGED << sysctl, total_cores >>
    /\ UNCHANGED << Session, PowerVars, SensorVars, UtilizationVars, HistoryVars, MergeVars >>

-----------------------------------------------------------------------------
(* read_core_temperatures (hardware/temperature.rs 99-208, 270-420).
   Temperatures are whole degrees. *)

MaxSensors == 2                         \* temperature services the IOHID client lists

(* sensor names: Product property, or Sensor_<i> when it cannot be read (lines 162-176) *)
SensorNames ==
    { "pACC MTR Temp Sensor0", "eACC MTR Temp Sensor0", "GPU MTR Temp Sensor0",
      "gas gauge battery", "Sensor_0" }

(* IOHIDEventGetFloatValue of a sensor's event *)
RawTemperatures == { 0, 45, 70, 150 }

(* a listed service: its name and its temperature event, None when
   IOHIDServiceClientCopyEvent returns null *)
Services == [ name : SensorNames, event : {None} \cup { Some(t) : t \in RawTemperatures } ]

SeqsUpTo(S, n) == UNION { [ 1..k -> S ] : k \in 0..n }

(* the platform: whether IOHIDEventSystemClientCreate and CFDictionaryCreate
   give an object, and the array IOHIDEventSystemClientCopyServices returns
   (None: null) *)
IohidStates ==
    [ client : BOOLEAN,
      services : {None} \cup { Some(sv) : sv \in SeqsUpTo(Services, MaxSensors) } ]

(* temperature > 0.0 && temperature < 150.0: line 192 *)
Usable_Inclusive(temperature) == temperature >= 0 /\ temperature <= 150
Usable(temperature) == temperature > 0 /\ temperature < 150

(* IOHIDTemperatureSensors::get_temperature_readings: lines 146-207 *)
get_temperature_readings(io) ==
    IF io.services = None
    THEN Err
    ELSE LET valid == SelectSeq(io.services[1],
                                LAMBDA sv : IsSome(sv.event) /\ Usable(sv.event[1]))
         IN  Ok([ i \in 1..Len(valid) |-> << valid[i].name, valid[i].event[1] >> ])

(* the branch of the name patterns a sensor name takes: lines 311-329 *)
Category(name) ==
    CASE name = "pACC MTR Temp Sensor0" -> "p_cores"
      [] name = "eACC MTR Temp Sensor0" -> "e_cores"
      [] name = "GPU MTR Temp Sensor0" -> "gpu_temps"
      [] name = "gas gauge battery" -> "battery_sensors"
      [] OTHER -> "other_temps"

(* temperatures of one category, in reading order *)
TempsOf(readings, category) ==
    LET of == SelectSeq(readings, LAMBDA r : Category(r[1]) = category)
    IN  [ i \in 1..Len(of) |-> of[i][2] ]

RECURSIVE SumSeq(_)
SumSeq(seq) == IF seq = << >> THEN 0 ELSE seq[1] + SumSeq(Tail(seq))

RECURSIVE MaxSeq(_)
MaxSeq(seq) == IF Len(seq) = 1 THEN seq[1] ELSE Max(seq[1], MaxSeq(Tail(seq)))

RECURSIVE MinSeq(_)
MinSeq(seq) == IF Len(seq) = 1 THEN seq[1] ELSE Min(seq[1], MinSeq(Tail(seq)))

(* iter().sum() / len() as f64, to the whole degree *)
Average(seq) == SumSeq(seq) \div Len(seq)

(* read_core_temperatures: lines 270-420 *)
read_core_temperatures(io) ==
    IF ~io.client
    THEN Err
    ELSE
    LET temperature_readings == get_temperature_readings(io)
    IN  IF temperature_readings = Err
        THEN Err
        ELSE
        LET readings == temperature_readings[2]
            other_temps == TempsOf(readings, "other_temps")
            gpu_temps == TempsOf(readings, "gpu_temps")
            battery_sensors == TempsOf(readings, "battery_sensors")
            split == TempsOf(readings, "p_cores") = << >> /\ TempsOf(readings, "e_cores") = << >>
                     /\ other_temps # << >>
            mid == Min((Len(other_temps) * 2) \div 3, Len(other_temps))
            p_cores == IF split THEN SubSeq(other_temps, 1, mid) ELSE TempsOf(readings, "p_cores")
            e_cores == IF split THEN SubSeq(other_temps, mid + 1, Len(other_temps))
                       ELSE TempsOf(readings, "e_cores")
            all_cpu_temps == p_cores \o e_cores
        IN  IF readings = << >>
            THEN Err
            ELSE IF all_cpu_temps = << >>
            THEN Err
            ELSE Ok([ p_cores |-> p_cores,
                      e_cores |-> e_cores,
                      cpu_temp_avg |-> Average(all_cpu_temps),
                      cpu_temp_max |-> MaxSeq(all_cpu_temps),
                      cpu_temp_min |-> MinSeq(all_cpu_temps),
                      gpu_temps |-> gpu_temps,
                      gpu_temp_avg |-> IF gpu_temps # << >> THEN Some(Average(gpu_temps)) ELSE None,
                      gpu_temp_max |-> IF gpu_temps # << >> THEN Some(MaxSeq(gpu_temps)) ELSE None,
                      battery_temp_avg |-> IF battery_sensors # << >>
                                           THEN Some(Average(battery_sensors)) ELSE None,
                      thermal_trend |-> "Stable" ])

(* one call of read_core_temperatures *)
ReadCoreTemperatures ==
    /\ core_temperature_data' = Some(read_core_temperatures(iohid))
    /\ UNCHANGED iohid
    /\ UNCHANGED << Session, PowerVars, TopologyVars, UtilizationVars, HistoryVars, MergeVars >>

-----------------------------------------------------------------------------
(* CpuUtilizationMonitor::get_cpu_utilization (hardware/cpu_monitor.rs 367-414).
   A usage is a whole percentage; an f64 result is kept to hundredths. *)

MaxCpus == 3                            \* cores sysinfo enumerates

Usages == { 0, 50, 100 }                \* cpu.cpu_usage() after the second refresh

(* f64 values: 0.0 / 0.0 is NaN *)
NaN == [ nan |-> TRUE, hundredths |-> 0 ]
Finite(h) == [ nan |-> FALSE, hundredths |-> h ]

(* total_utilization / cpus.len() as f64: line 406 *)
f64_div(total, n) == IF n = 0 THEN NaN ELSE Finite((total * 100) \div n)

(* a monitor as new() leaves it (lines 342-365) and the usages its system reports *)
CpuMonitors ==
    [ cpus : SeqsUpTo(Usages, MaxCpus),
      p_core_count : { 0, 2 },
      e_core_count : 0..(MaxCpus + 1) ]

(* the loop of lines 393-404 and the mean of line 406 *)
get_cpu_utilization(mon) ==
    LET cpus == mon.cpus
        n == Len(cpus)
        e_idx == { i \in 1..n : (i - 1) < mon.e_core_count }
    IN  [ p_core_utils |-> SubSeq(cpus, Cardinality(e_idx) + 1, n),
          e_core_utils |-> SubSeq(cpus, 1, Cardinality(e_idx)),
          overall_utilization |-> f64_div(SumSeq(cpus), n) ]

(* one call of get_cpu_utilization *)
GetCpuUtilization ==
    /\ cpu_utilization' = Some(get_cpu_utilization(cpu_monitor))
    /\ UNCHANGED cpu_monitor
    /\ UNCHANGED << Session, PowerVars, TopologyVars, SensorVars, HistoryVars, MergeVars >>

-----------------------------------------------------------------------------
(* TemperatureHistory (hardware/temperature.rs 221-268).  Temperatures are
   whole degrees, timestamps milliseconds. *)

MaxCapacity == 3                        \* max_size of the histories built
MaxReadings == 4                        \* add_reading calls made on one history

HistoryTemps == { 40, 41, 45, 46 }
HistorySteps == { 4000, 6000 }          \* milliseconds between two readings
Windows == { 5000, 10000 }              \* window_ms passed to get_trend

(* TemperatureHistory::new: lines 227-232 *)
TemperatureHistory_new(max_size) == [ readings |-> << >>, max_size |-> max_size ]

(* TemperatureHistory::add_reading: lines 234-239 *)
add_reading_NoEviction(h, timestamp, temp) ==
    [ h EXCEPT !.readings = Append(h.readings, << timestamp, temp >>) ]
add_reading(h, timestamp, temp) ==
    LET pushed == Append(h.readings, << timestamp, temp >>)
    IN  [ h EXCEPT !.readings = IF Len(pushed) > h.max_size THEN Tail(pushed) ELSE pushed ]

(* now - ts <= window_ms: line 249 *)
InWindow_Always(now, ts, window_ms) == TRUE
InWindow(now, ts, window_ms) == now - ts <= window_ms

(* the match on temp_change: lines 260-266 *)
Classify_Inclusive(temp_change) ==
    IF temp_change >= 5 THEN "Rapid"
    ELSE IF temp_change > 1 THEN "Heating"
    ELSE IF temp_change <= -5 THEN "Rapid"
    ELSE IF temp_change < -1 THEN "Cooling"
    ELSE "Stable"
Classify(temp_change) ==
    IF temp_change > 5 THEN "Rapid"
    ELSE IF temp_change > 1 THEN "Heating"
    ELSE IF temp_change < -5 THEN "Rapid"
    ELSE IF temp_change < -1 THEN "Cooling"
    ELSE "Stable"

(* the readings the filter of lines 247-250 keeps *)
Recent(h, window_ms) ==
    LET now == h.readings[Len(h.readings)][1]
    IN  SelectSeq(h.readings, LAMBDA r : InWindow(now, r[1], window_ms))

(* TemperatureHistory::get_trend: lines 241-267 *)
get_trend(h, window_ms) ==
    IF Len(h.readings) < 3
    THEN "Stable"
    ELSE LET recent == Recent(h, window_ms)
         IN  IF Len(recent) < 3
             THEN "Stable"
             ELSE Classify(recent[Len(recent)][2] - recent[1][2])

(* the caller adds the reading of a tick; its clock does not run backwards
   (hardware/mod.rs 170) *)
AddReading ==
    /\ Len(added) < MaxReadings
    /\ \E step \in HistorySteps, temp \in HistoryTemps :
          LET timestamp == IF added = << >> THEN step ELSE added[Len(added)][1] + step
          IN  /\ temp_history' = add_reading(temp_history, timestamp, temp)
              /\ added' = Append(added, << timestamp, temp >>)
    /\ thermal_trend' = None
    /\ UNCHANGED << Session, PowerVars, TopologyVars, SensorVars, UtilizationVars, MergeVars >>

(* the caller asks for the trend (hardware/mod.rs 171) *)
GetTrend ==
    /\ \E window_ms \in Windows :
          thermal_trend' = Some([ window_ms |-> window_ms,
                                  trend |-> get_trend(temp_history, window_ms) ])
    /\ UNCHANGED << temp_history, added >>
    /\ UNCHANGED << Session, PowerVars, TopologyVars, SensorVars, UtilizationVars, MergeVars >>

-----------------------------------------------------------------------------
(* TelemetryUpdate::with_inference_data (telemetry/types.rs 119-154, 169-211),
   called by the token loop on the snapshot it reads from CURRENT_TELEMETRY
   (inference/generation.rs 294-303). *)

(* a snapshot of the aggregator with every hardware field filled *)
FilledUpdate ==
    [ timestamp_ms |-> 1000,
      cpu_power_watts |-> Some(10), gpu_power_watts |-> Some(5), ane_power_watts |-> Some(1),
      cpu_temp_celsius |-> Some(60), gpu_temp_celsius |-> Some(55),
      cpu_freq_mhz |-> Some(3200), gpu_freq_mhz |-> Some(1300),
      ram_usage_gb |-> Some(12), thermal_pressure |-> Some("Nominal"),
      ttft_ms |-> None, current_tps |-> None, instantaneous_tps |-> None,
      generation_time_ms |-> None, model |-> None,
      cpu_temp_avg |-> Some(60), cpu_temp_max |-> Some(70),
      cpu_p_core_temps |-> Some(<< 70, 62 >>), cpu_e_core_temps |-> Some(<< 50 >>),
      gpu_temp_avg |-> Some(55), gpu_temp_max |-> Some(58),
      gpu_cluster_temps |-> Some(<< 55, 58 >>), battery_temp_avg |-> Some(30),
      cpu_p_core_utilization |-> Some(<< 90, 80 >>), cpu_e_core_utilization |-> Some(<< 20 >>),
      cpu_overall_utilization |-> Some(63),
      core_temperatures |-> Some([ cpu_temp_avg |-> 60, cpu_temp_max |-> 70 ]),
      total_energy_wh |-> Some(16), cpu_energy_wh |-> Some(10),
      gpu_energy_wh |-> Some(5), ane_energy_wh |-> Some(1),
      energy_rate_wh_per_token |-> Some(2) ]

(* a snapshot without any reading *)
EmptyUpdate ==
    [ f \in DOMAIN FilledUpdate |-> IF f = "timestamp_ms" THEN 1000 ELSE None ]

(* the snapshots a job can find: with or without readings, already merged
   with metrics of an earlier token or not *)
BaseUpdates ==
    { [ b EXCEPT !.timestamp_ms = t, !.ttft_ms = f, !.current_tps = c,
                 !.generation_time_ms = g, !.model = m ] :
        b \in { FilledUpdate, EmptyUpdate },
        t \in { 1000, 2000 },
        f \in { None, Some(100) },
        c \in { None, Some(20) },
        g \in { None, Some(5000) },
        m \in { None, Some("A") } }

(* arguments of a call and the SystemTime::now() it reads, in ms *)
InferenceArgs ==
    [ ttft_ms : { None, Some(120) },
      current_tps : { None, Some(25) },
      instantaneous_tps : { None, Some(30) },
      model : { None, Some("B") },
      now : { 1500, 3000 } ]

(* with_inference_data: lines 171-210 *)
with_inference_data_DropsEnergy(self, ttft_ms, current_tps, instantaneous_tps, model, now) ==
    [ self EXCEPT !.timestamp_ms = now,
                  !.ttft_ms = ttft_ms,
                  !.current_tps = current_tps,
                  !.instantaneous_tps = instantaneous_tps,
                  !.model = model,
                  !.total_energy_wh = None, !.cpu_energy_wh = None,
                  !.gpu_energy_wh = None, !.ane_energy_wh = None ]
with_inference_data(self, ttft_ms, current_tps, instantaneous_tps, model, now) ==
    [ timestamp_ms |-> now,
      cpu_power_watts |-> self.cpu_power_watts,
      gpu_power_watts |-> self.gpu_power_watts,
      ane_power_watts |-> self.ane_power_watts,
      cpu_temp_celsius |-> self.cpu_temp_celsius,
      gpu_temp_celsius |-> self.gpu_temp_celsius,
      cpu_freq_mhz |-> self.cpu_freq_mhz,
      gpu_freq_mhz |-> self.gpu_freq_mhz,
      ram_usage_gb |-> self.ram_usage_gb,
      thermal_pressure |-> self.thermal_pressure,
      cpu_temp_avg |-> self.cpu_temp_avg,
      cpu_temp_max |-> self.cpu_temp_max,
      cpu_p_core_temps |-> self.cpu_p_core_temps,
      cpu_e_core_temps |-> self.cpu_e_core_temps,
      gpu_temp_avg |-> self.gpu_temp_avg,
      gpu_temp_max |-> self.gpu_temp_max,
      gpu_cluster_temps |-> self.gpu_cluster_temps,
      battery_temp_avg |-> self.battery_temp_avg,
      cpu_p_core_utilization |-> self.cpu_p_core_utilization,
      cpu_e_core_utilization |-> self.cpu_e_core_utilization,
      cpu_overall_utilization |-> self.cpu_overall_utilization,
      core_temperatures |-> self.core_temperatures,
      ttft_ms |-> ttft_ms,
      current_tps |-> current_tps,
      instantaneous_tps |-> instantaneous_tps,
      generation_time_ms |-> self.generation_time_ms,
      model |-> model,
      total_energy_wh |-> self.total_energy_wh,
      cpu_energy_wh |-> self.cpu_energy_wh,
      gpu_energy_wh |-> self.gpu_energy_wh,
      ane_energy_wh |-> self.ane_energy_wh,
      energy_rate_wh_per_token |-> self.energy_rate_wh_per_token ]

(* the token loop reads the snapshot under CURRENT_TELEMETRY.read() and merges
   its metrics into a new value: inference/generation.rs 299-303 *)
MergeInferenceData ==
    /\ IsSome(base_telemetry)
    /\ \E a \in InferenceArgs :
         /\ inference_args' = Some(a)
         /\ merged' = Some(with_inference_data(base_telemetry[1], a.ttft_ms, a.current_tps,
                                                a.instantaneous_tps, a.model, a.now))
    /\ UNCHANGED base_telemetry
    /\ UNCHANGED << Session, PowerVars, TopologyVars, SensorVars, UtilizationVars, HistoryVars >>

-----------------------------------------------------------------------------
(* Specifications *)

(* the library objects as constructed, before any call *)
PowerIdle ==
    /\ calculator = PowerCalculator_new
    /\ calculator_call = "new"
    /\ telemetry_in = None
    /\ telemetry_out = None
TopologyIdle ==
    /\ sysctl = [ brand_string |-> None, perflevel0 |-> None, perflevel1 |-> None ]
    /\ total_cores = 0
    /\ silicon_info = None
SensorIdle == iohid = [ client |-> TRUE, services |-> None ] /\ core_temperature_data = None
UtilizationIdle ==
    /\ cpu_monitor = [ cpus |-> << >>, p_core_count |-> 0, e_core_count |-> 0 ]
    /\ cpu_utilization = None
HistoryIdle ==
    /\ temp_history = TemperatureHistory_new(0)
    /\ added = << >>
    /\ thermal_trend = None
MergeIdle ==
    /\ base_telemetry = None
    /\ inference_args = None
    /\ merged = None
LibraryIdle == PowerIdle /\ TopologyIdle /\ SensorIdle /\ UtilizationIdle /\ HistoryIdle /\ MergeIdle

SessionInit(cfg, h) ==
    /\ config = cfg
    /\ host = h
    /\ GLOBAL_STOP_SIGNAL = None
    /\ other_pc = "none"
    /\ other_stop_signal = FALSE
    /\ stop_signal = FALSE
    /\ prewarm_stop_signal = FALSE
    /\ main_pc = "start"
    /\ inf_pc = "unspawned"
    /\ result = "Pending"
    /\ job = [A |-> "idle", B |-> "idle"]
    /\ tokens = 0
    /\ baseline_cpu_max = None
    /\ elapsed = 0
    /\ polls = 0
    /\ cooldown_read = None
    /\ events = << >>
    /\ agg = [ i \in Monitors |-> NoMonitor ]
    /\ command_rx = [ i \in Monitors |-> None ]
    /\ CURRENT_TELEMETRY = None
    /\ event_handle = "none"

InitState(cfg, h) == SessionInit(cfg, h) /\ LibraryIdle

(* sequential runs with the cooldown gate, telemetry disabled *)
CooldownConfigs ==
    [ target : {"Both"},
      model_a : BOOLEAN, model_b : BOOLEAN,
      wait_for_cpu_baseline_between_models : BOOLEAN,
      wait_for_cpu_baseline_margin_c : MarginInputs,
      run_without_telemetry : {TRUE},
      telemetry_sampling_hz : {None} ]

(* runs with telemetry, without the cooldown gate *)
TelemetryConfigs ==
    [ target : Targets,
      model_a : {TRUE}, model_b : {TRUE},
      wait_for_cpu_baseline_between_models : {FALSE},
      wait_for_cpu_baseline_margin_c : {None},
      run_without_telemetry : BOOLEAN,
      telemetry_sampling_hz : HzInputs ]

(* a machine whose sensors answer and whose macmon pipe yields a record or nothing *)
SessionHost ==
    [ native |-> { Ok([ cpu_temp_avg |-> 50, cpu_temp_max |-> 55, gpu_temp_avg |-> Some(45) ]) },
      outcomes |-> { JsonLine(MacmonRecord(Some(1), TRUE)), Timeout } ]

(* a machine on which every outcome of the two reads can happen *)
AnyHost == [ native |-> NativeReads, outcomes |-> ReadOutcomes ]

CooldownInit == \E cfg \in CooldownConfigs : InitState(cfg, SessionHost)
CooldownNext ==
    \/ InstallStopSignal \/ SpawnInference \/ AwaitInference
    \/ TeardownSignal \/ TeardownAbort \/ ClearStopSignal
    \/ stop_generation
    \/ InfDispatch \/ MeasureBaseline \/ StartModelA \/ GenerateToken \/ ModelReturns
    \/ CdEnter \/ CdCheck \/ CdRead \/ CdSleep
    \/ StartModelB
SpecCooldown == CooldownInit /\ [][CooldownNext]_vars

Init == \E cfg \in TelemetryConfigs : InitState(cfg, SessionHost)
Next ==
    \/ InstallStopSignal \/ SpawnInference \/ AwaitInference
    \/ TeardownSignal \/ TeardownAbort \/ ClearStopSignal
    \/ stop_generation
    \/ InfDispatch \/ StartModelA \/ GenerateToken \/ ModelReturns
    \/ CdEnter \/ StartModelB
    \/ SpawnPrewarm \/ StopPrewarm \/ SpawnMonitor \/ SpawnEmitter
    \/ \E i \in Monitors :
          \/ AggStart(i) \/ AggExit(i) \/ AggTickBegin(i) \/ AggTickEnd(i)
          \/ AggWake(i) \/ AggDropped(i)
Spec == Init /\ [][Next]_vars

(* the session with a job that may panic and with monitor tasks that are being
   polled when they are aborted *)
TeardownNext ==
    \/ Next
    \/ InferencePanics
    \/ \E i \in Monitors : AggTickEndAborting(i)
SpecTeardown == Init /\ [][TeardownNext]_vars

(* two invocations of run_generation_turn in one process: the session above
   without telemetry, and another one that installs and clears its flag *)
TwoSessionConfigs ==
    [ target : Targets,
      model_a : {TRUE}, model_b : {TRUE},
      wait_for_cpu_baseline_between_models : BOOLEAN,
      wait_for_cpu_baseline_margin_c : {None},
      run_without_telemetry : {TRUE},
      telemetry_sampling_hz : {None} ]
TwoSessionsInit ==
    \E cfg \in TwoSessionConfigs :
        /\ config = cfg
        /\ host = SessionHost
        /\ GLOBAL_STOP_SIGNAL = None
        /\ other_pc = "start"
        /\ other_stop_signal = FALSE
        /\ stop_signal = FALSE
        /\ prewarm_stop_signal = FALSE
        /\ main_pc = "start"
        /\ inf_pc = "unspawned"
        /\ result = "Pending"
        /\ job = [A |-> "idle", B |-> "idle"]
        /\ tokens = 0
        /\ baseline_cpu_max = None
        /\ elapsed = 0
        /\ polls = 0
        /\ cooldown_read = None
        /\ events = << >>
        /\ agg = [ i \in Monitors |-> NoMonitor ]
        /\ command_rx = [ i \in Monitors |-> None ]
        /\ CURRENT_TELEMETRY = None
        /\ event_handle = "none"
        /\ LibraryIdle
TwoSessionsNext ==
    \/ CooldownNext
    \/ OtherInstall \/ OtherTeardownSignal \/ OtherClear
SpecTwoSessions == TwoSessionsInit /\ [][TwoSessionsNext]_vars

(* one monitor at 1 Hz through a Model A run, on any machine *)
MonitorConfigs ==
    [ target : {"A"},
      model_a : {TRUE}, model_b : {TRUE},
      wait_for_cpu_baseline_between_models : {FALSE},
      wait_for_cpu_baseline_margin_c : {None},
      run_without_telemetry : {FALSE},
      telemetry_sampling_hz : {None} ]

MonitorInit == \E cfg \in MonitorConfigs : InitState(cfg, AnyHost)
MonitorNext ==
    \/ InstallStopSignal \/ SpawnPrewarm \/ SpawnEmitter \/ SpawnInference
    \/ AwaitInference \/ TeardownSignal \/ TeardownAbort \/ ClearStopSignal
    \/ stop_generation
    \/ InfDispatch \/ StartModelA \/ GenerateToken \/ ModelReturns
    \/ \E i \in Monitors :
          \/ AggStart(i) \/ AggExit(i) \/ AggTickBegin(i) \/ AggTickEnd(i)
          \/ AggWake(i) \/ AggDropped(i)
SpecMonitor == MonitorInit /\ [][MonitorNext]_vars

(* sessions over the requested sampling frequencies, in and out of range;
   the target is one the dispatch rejects, so no job runs *)
FrequencyConfigs ==
    [ target : {"X"},
      model_a : {TRUE}, model_b : {TRUE},
      wait_for_cpu_baseline_between_models : {FALSE},
      wait_for_cpu_baseline_margin_c : {None},
      run_without_telemetry : BOOLEAN,
      telemetry_sampling_hz : FrequencyInputs ]

FrequencyInit == \E cfg \in FrequencyConfigs : InitState(cfg, SessionHost)
FrequencyNext ==
    \/ InstallStopSignal \/ SpawnInference \/ AwaitInference
    \/ TeardownSignal \/ TeardownAbort \/ ClearStopSignal
    \/ stop_generation
    \/ InfDispatch
    \/ SpawnPrewarm \/ StopPrewarm \/ SpawnMonitor \/ SpawnEmitter
    \/ \E i \in Monitors :
          \/ AggStart(i) \/ AggExit(i) \/ AggTickBegin(i) \/ AggTickEnd(i)
          \/ AggWake(i) \/ AggDropped(i)
SpecFrequency == FrequencyInit /\ [][FrequencyNext]_vars

(* the session of the library specifications: never started *)
IdleConfig ==
    [ target |-> "X", model_a |-> TRUE, model_b |-> TRUE,
      wait_for_cpu_baseline_between_models |-> FALSE,
      wait_for_cpu_baseline_margin_c |-> None,
      run_without_telemetry |-> TRUE,
      telemetry_sampling_hz |-> None ]

(* one PowerCalculator fed with samples and reset at any time *)
PowerInit == InitState(IdleConfig, SessionHost)
PowerNext == PowerUpdate \/ PowerReset
SpecPower == PowerInit /\ [][PowerNext]_vars

(* the same calculator fed with samples whose timestamps come in any order *)
PowerAnyClockNext == PowerUpdateAnyClock \/ PowerReset
SpecPowerAnyClock == PowerInit /\ [][PowerAnyClockNext]_vars

(* one detection on every platform answer and core count *)
TopologyInit ==
    /\ SessionInit(IdleConfig, SessionHost)
    /\ PowerIdle /\ SensorIdle /\ UtilizationIdle /\ HistoryIdle /\ MergeIdle
    /\ sysctl \in SysctlAnswers
    /\ total_cores \in TotalCores
    /\ silicon_info = None
SpecTopology == TopologyInit /\ [][Detect]_vars

(* one temperature read on every state of the sensors *)
SensorInit ==
    /\ SessionInit(IdleConfig, SessionHost)
    /\ PowerIdle /\ TopologyIdle /\ UtilizationIdle /\ HistoryIdle /\ MergeIdle
    /\ iohid \in IohidStates
    /\ core_temperature_data = None
SpecSensors == SensorInit /\ [][ReadCoreTemperatures]_vars

(* one utilization sample on every monitor *)
UtilizationInit ==
    /\ SessionInit(IdleConfig, SessionHost)
    /\ PowerIdle /\ TopologyIdle /\ SensorIdle /\ HistoryIdle /\ MergeIdle
    /\ cpu_monitor \in CpuMonitors
    /\ cpu_utilization = None
SpecUtilization == UtilizationInit /\ [][GetCpuUtilization]_vars

(* one TemperatureHistory of any capacity, filled and queried *)
HistoryInit ==
    /\ SessionInit(IdleConfig, SessionHost)
    /\ PowerIdle /\ TopologyIdle /\ SensorIdle /\ UtilizationIdle /\ MergeIdle
    /\ temp_history \in { TemperatureHistory_new(n) : n \in 0..MaxCapacity }
    /\ added = << >>
    /\ thermal_trend = None
HistoryNext == AddReading \/ GetTrend
SpecHistory == HistoryInit /\ [][HistoryNext]_vars

(* metrics merged into every snapshot a job can find *)
MergeInit ==
    /\ SessionInit(IdleConfig, SessionHost)
    /\ PowerIdle /\ TopologyIdle /\ SensorIdle /\ UtilizationIdle /\ HistoryIdle
    /\ base_telemetry \in { Some(b) : b \in BaseUpdates }
    /\ inference_args = None
    /\ merged = None
SpecMerge == MergeInit /\ [][MergeInferenceData]_vars

-----------------------------------------------------------------------------
(* Properties *)

Last(seq) == seq[Len(seq)]
EventStates(evs) == [ k \in 1..Len(evs) |-> evs[k].state ]
IsProgress(e) == e.state = "progress"
Readings(evs) == LET p == SelectSeq(evs, IsProgress)
                 IN  [ k \in 1..Len(p) |-> p[k].current_c[1] ]
Terminal == {"complete", "canceled", "timeout"}
InCooldownLoop == inf_pc \in {"cd_check", "cd_read", "cd_sleep"}
PastCooldownLoop == inf_pc \in {"b_begin", "b_run", "done"}
TickEnds(i) == agg[i].pc = "sampling" /\ agg'[i].pc = "sleeping"

(* C1: once the main monitor has been started, the warm-up monitor publishes
   no further snapshot and does not write the latest-snapshot cell again. *)
C1_WarmupSilentAfterHandoff ==
    [][ agg["main"].pc # "unspawned" =>
          /\ agg'["prewarm"].ticks = agg["prewarm"].ticks
          /\ ~ TickEnds("prewarm") ]_vars

(* C2: a monitor that has stopped, by leaving its loop or by abort of its
   task, has no macmon process left running. *)
C2_StoppedMonitorKillsMacmon ==
    \A i \in Monitors :
        agg[i].pc \in {"stopped", "aborted"} => agg[i].macmon_child # "running"

(* C3: with the session's stop flag set by stop_generation while the session
   is in flight, a monitor at the top of a tick leaves its loop. *)
C3_StopObservedAtNextTick ==
    [][ \A i \in Monitors :
          ( /\ main_pc = "await_inference"
            /\ stop_signal
            /\ agg[i].pc = "loop_top"
            /\ agg'[i].pc # "loop_top" ) => agg'[i].pc = "stopped" ]_vars

(* C4: a reset command sent while the monitor runs is applied before the next
   integration step: no integration step runs with a command pending. *)
C4_ResetBeforeNextIntegration ==
    [][ \A i \in Monitors : TickEnds(i) => command_rx[i] = Some(0) ]_vars

(* C5: once the stop flag is set, the cooldown wait emits canceled at its next
   poll and emits no complete event. *)
C5_CancelPreemptsComplete ==
    [][ StopRequested =>
          /\ (events' # events => Last(events').state # "complete")
          /\ (inf_pc = "cd_check" /\ inf_pc' # "cd_check"
                 => events' # events /\ Last(events').state = "canceled") ]_vars

(* C6 as stated: with baseline 50 and margin 2, readings 55, 53, 52 give the
   events started, progress, progress, complete. *)
C6_PhasesAsStated ==
    ( /\ baseline_cpu_max = Some(50) /\ margin_c = 2
      /\ PastCooldownLoop
      /\ Readings(events) = << 55, 53, 52 >> )
    => EventStates(events) = << "started", "progress", "progress", "complete" >>

(* C6 amended: with baseline 50 and margin 2 the threshold is 52 and readings
   55, 53, 52 give started, progress, progress, progress, complete; every poll
   whose reading is at or below the threshold emits progress and then complete,
   and complete is emitted only there, after readings all above the threshold. *)
C6_CompleteAtFirstCoolReading ==
    /\ (baseline_cpu_max = Some(50) /\ margin_c = 2) => Threshold = 52
    /\ ( /\ baseline_cpu_max = Some(50) /\ margin_c = 2
         /\ PastCooldownLoop
         /\ Readings(events) = << 55, 53, 52 >> )
       => EventStates(events) =
              << "started", "progress", "progress", "progress", "complete" >>
    /\ \A k \in 1..Len(events) :
          /\ (IsProgress(events[k]) /\ events[k].current_c[1] <= Threshold)
                => k < Len(events) /\ events[k+1].state = "complete"
          /\ events[k].state = "complete"
                => /\ k = Len(events) /\ k > 1
                   /\ IsProgress(events[k-1])
                   /\ events[k-1].current_c = events[k].current_c
                   /\ events[k].current_c[1] <= Threshold
                   /\ \A j \in 1..(k-2) :
                         IsProgress(events[j]) => events[j].current_c[1] > Threshold

C6_Witness ==
    /\ baseline_cpu_max = Some(50) /\ margin_c = 2
    /\ Readings(events) = << 55, 53, 52 >>
    /\ Last(events).state = "complete"

(* C7: a timeout event is emitted only with elapsed >= 300 s and is the last
   event; a wait that ended without cancellation, read failure or a reading at
   or below the threshold ended with exactly one timeout event. *)
C7_TimeoutOnceAtCap ==
    /\ \A k \in 1..Len(events) :
          events[k].state = "timeout" => k = Len(events) /\ elapsed >= MAX_WAIT_SECS
    /\ ( /\ polls > 0 /\ PastCooldownLoop
         /\ \A k \in 1..Len(events) :
               /\ events[k].state # "canceled"
               /\ IsProgress(events[k]) => events[k].current_c[1] > Threshold )
       => /\ Last(events).state = "timeout"
          /\ Cardinality({ k \in 1..Len(events) : events[k].state = "timeout" }) = 1

C7_Witness ==
    /\ events # << >>
    /\ Last(events).state = "timeout"
    /\ polls > 1

(* C8: a failed read in the cooldown loop emits canceled without a current
   reading in that poll and ends the wait: no further read, no further sleep,
   and the task goes on to Model B. *)
C8_ReadFailureCancels ==
    /\ [] ( cooldown_read = Err =>
              /\ Last(events).state = "canceled"
              /\ Last(events).current_c = None
              /\ PastCooldownLoop )
    /\ [][ cooldown_read = Err => polls' = polls /\ elapsed' = elapsed ]_vars

C8_Witness ==
    /\ cooldown_read = Err
    /\ polls > 1
    /\ inf_pc = "b_run"

(* C9: the cooldown events of a run are one started, then progress events,
   then exactly one terminal event, with nothing after it. *)
C9_EventGrammar ==
    /\ \A k \in 1..Len(events) :
          /\ events[k].state = "started" <=> k = 1
          /\ events[k].state \in Terminal => k = Len(events)
    /\ (inf_pc = "done" /\ events # << >>) => Last(events).state \in Terminal

(* C10: with the cooldown requested and a baseline recorded, Model B does not
   start before the wait's terminal event, and no poll of the wait happens
   before Model A's inference has returned. *)
C10_GateOrdersJobs ==
    ( /\ config.target = "Both"
      /\ config.wait_for_cpu_baseline_between_models
      /\ IsSome(baseline_cpu_max) )
    => /\ job.B # "idle" => Last(events).state \in Terminal
       /\ (InCooldownLoop \/ polls > 0) => job.A = "ok"

C10_Witness ==
    /\ job.B = "running"
    /\ job.A = "ok"
    /\ polls > 0
    /\ Last(events).state \in Terminal

(* C11: the margin of a gated wait is the configured margin, 2 when absent,
   brought into [-20, 20] with negative values kept; every cooldown event
   carries that margin, the baseline recorded before Model A and the threshold
   baseline + margin, so the three are the same in all events of the run. *)
C11_MarginClampedThresholdFixed ==
    LET configured == config.wait_for_cpu_baseline_margin_c
        expected == IF configured = None THEN 2
                    ELSE IF configured[1] < -20 THEN -20
                    ELSE IF configured[1] > 20 THEN 20
                    ELSE configured[1]
    IN  \A k \in 1..Len(events) :
           /\ events[k].margin_c = expected
           /\ events[k].baseline_c = baseline_cpu_max
           /\ events[k].threshold_c = Some(baseline_cpu_max[1] + expected)
           /\ events[k].baseline_c = events[1].baseline_c
           /\ events[k].margin_c = events[1].margin_c
           /\ events[k].threshold_c = events[1].threshold_c

C11_Witness ==
    /\ config.wait_for_cpu_baseline_margin_c = Some(25)
    /\ Len(events) >= 3
    /\ Last(events).state = "complete"
    /\ Last(events).margin_c = 20
    /\ Last(events).threshold_c = Some(baseline_cpu_max[1] + 20)

Running(pc) == pc \in {"loop_top", "sampling", "sleeping"}
Finished(pc) == pc \in {"stopped", "aborted"}

(* C12: a monitor enters its loop once, from its spawned state, and leaves it
   once for good; a tick begins only with the monitor's flag read clear at the
   top of the loop; with the flag set a monitor at the top of the loop leaves
   it, and a monitor inside a tick only finishes that tick and its sleep
   before it is at the top again. *)
C12_RunsOnceStopsOnFlag ==
    [][ \A i \in Monitors :
          LET flag == IF i = "prewarm" THEN prewarm_stop_signal ELSE stop_signal
              from == agg[i].pc
              to == agg'[i].pc
          IN  /\ Finished(from) => to = from
              /\ (Running(to) /\ ~Running(from)) => from = "spawned"
              /\ (from = "loop_top" /\ to = "sampling") => ~flag
              /\ (flag /\ to # from) =>
                     << from, to >> \in { << "unspawned", "spawned" >>,
                                          << "spawned", "loop_top" >>,
                                          << "sampling", "sleeping" >>,
                                          << "sleeping", "loop_top" >>,
                                          << "loop_top", "stopped" >>,
                                          << "spawned", "aborted" >>,
                                          << "sampling", "aborted" >>,
                                          << "sleeping", "aborted" >> } ]_vars

C12_Witness ==
    /\ agg["main"].pc = "stopped"
    /\ agg["main"].ticks >= 1
    /\ agg["prewarm"].pc = "stopped"

Published(i) == CURRENT_TELEMETRY'[1]

(* C13: a tick that has begun and is not cut off by the abort of its task ends
   by publishing one snapshot, whatever the native read and the read of the
   macmon pipe gave, and a monitor publishes nowhere else; when the native
   read failed, the snapshot carries the power, frequency, memory and
   temperature values of the record read in that tick and no native
   temperature data. *)
C13_EveryTickPublishes ==
    [][ \A i \in Monitors :
          /\ (agg[i].pc = "sampling" /\ agg'[i].pc \notin {"sampling", "aborted"})
                => /\ agg'[i].pc = "sleeping"
                   /\ agg'[i].ticks = agg[i].ticks + 1
                   /\ IsSome(CURRENT_TELEMETRY')
                   /\ Published(i).source = i
                   /\ Published(i).seq = agg'[i].ticks
          /\ agg'[i].ticks # agg[i].ticks => TickEnds(i)
          /\ (TickEnds(i) /\ agg'[i].core_temp_result = Err)
                => /\ Published(i).core_temperatures = None
                   /\ Published(i).cpu_temp_max = None
                   /\ \A r \in MacmonRecords :
                         agg'[i].outcome = << "line", "json", r >>
                         => /\ Published(i).cpu_power_watts = r.cpu_power
                            /\ r.pcpu_usage # None
                                  => Published(i).cpu_freq_mhz = Some(r.pcpu_usage[1][1])
                            /\ r.memory # None
                                  => Published(i).ram_usage_gb = Some(1)
                            /\ r.temp # None
                                  => /\ Published(i).cpu_temp_celsius = r.temp[1].cpu_temp_avg
                                     /\ Published(i).gpu_temp_celsius = r.temp[1].gpu_temp_avg ]_vars

C13_Witness ==
    /\ agg["prewarm"].pc = "sleeping"
    /\ agg["prewarm"].ticks = 2
    /\ agg["prewarm"].core_temp_result = Err
    /\ agg["prewarm"].outcome = JsonLine(MacmonRecord(Some(1), TRUE))
    /\ CURRENT_TELEMETRY[1].cpu_power_watts = Some(1)
    /\ CURRENT_TELEMETRY[1].cpu_temp_celsius = Some(60)
    /\ CURRENT_TELEMETRY[1].core_temperatures = None

TickBegins(i) == agg[i].pc = "loop_top" /\ agg'[i].pc = "sampling"

(* C14: a monitor publishes each snapshot with the timestamp taken at the top
   of its tick, and the timestamp taken at the top of a tick is greater than
   the one of the monitor's previous tick. *)
C14_TimestampsIncrease ==
    [][ \A i \in Monitors :
          /\ TickEnds(i) => Published(i).timestamp_ms = agg[i].timestamp
          /\ (TickBegins(i) /\ agg[i].ticks > 0)
                => agg'[i].timestamp > agg[i].timestamp ]_vars

C14_Witness ==
    /\ agg["main"].ticks = 2
    /\ agg["main"].pc = "sleeping"
    /\ CURRENT_TELEMETRY[1].source = "main"
    /\ CURRENT_TELEMETRY[1].timestamp_ms = 500

(* the snapshot in the cell is the one monitor i published in its last tick *)
LatestOf(i) ==
    /\ agg[i].pc = "sleeping"
    /\ IsSome(CURRENT_TELEMETRY)
    /\ CURRENT_TELEMETRY[1].source = i
    /\ CURRENT_TELEMETRY[1].seq = agg[i].ticks

(* the record of the tick's external read, when it gave a well-formed one *)
External(i) ==
    IF agg[i].outcome # None /\ agg[i].outcome[1] = "line" /\ agg[i].outcome[2] = "json"
    THEN Some(agg[i].outcome[3]) ELSE None
ExternalPower(i) == IF External(i) = None THEN None ELSE External(i)[1].cpu_power
ExternalFreq(i) ==
    IF External(i) = None \/ External(i)[1].pcpu_usage = None THEN None
    ELSE Some(External(i)[1].pcpu_usage[1][1])
ExternalRam(i) ==
    IF External(i) = None \/ External(i)[1].memory = None THEN None ELSE Some(1)
ExternalCpuTemp(i) ==
    IF External(i) = None \/ External(i)[1].temp = None THEN None
    ELSE External(i)[1].temp[1].cpu_temp_avg
ExternalGpuTemp(i) ==
    IF External(i) = None \/ External(i)[1].temp = None THEN None
    ELSE External(i)[1].temp[1].gpu_temp_avg

PowerFrequencyMemoryExternal(i) ==
    /\ CURRENT_TELEMETRY[1].cpu_power_watts = ExternalPower(i)
    /\ CURRENT_TELEMETRY[1].cpu_freq_mhz = ExternalFreq(i)
    /\ CURRENT_TELEMETRY[1].ram_usage_gb = ExternalRam(i)

(* C15 as stated: when the native read succeeded every temperature field of
   the snapshot is the native value, an external temperature being used only
   in ticks whose native read failed; power, frequency and memory are the
   external record's, absent without a record. *)
C15_ExternalTempOnlyOnNativeFailure ==
    \A i \in Monitors :
       LatestOf(i) =>
          /\ PowerFrequencyMemoryExternal(i)
          /\ agg[i].core_temp_result[1] = "Ok" =>
                /\ CURRENT_TELEMETRY[1].cpu_temp_celsius = Some(agg[i].core_temp_result[2].cpu_temp_avg)
                /\ CURRENT_TELEMETRY[1].cpu_temp_avg = Some(agg[i].core_temp_result[2].cpu_temp_avg)
                /\ CURRENT_TELEMETRY[1].cpu_temp_max = Some(agg[i].core_temp_result[2].cpu_temp_max)
                /\ CURRENT_TELEMETRY[1].gpu_temp_avg = agg[i].core_temp_result[2].gpu_temp_avg
                /\ CURRENT_TELEMETRY[1].gpu_temp_celsius = agg[i].core_temp_result[2].gpu_temp_avg

(* C15 amended: when the native read succeeded the temperature fields are the
   native values, except that gpu_temp_celsius is the external record's GPU
   temperature when the native reading has no GPU average; when the native
   read failed the CPU and GPU temperature fields are the external record's;
   power, frequency and memory are the external record's in every tick. *)
C15_NativeFirstGpuFallback ==
    \A i \in Monitors :
       LatestOf(i) =>
          /\ PowerFrequencyMemoryExternal(i)
          /\ agg[i].core_temp_result[1] = "Ok" =>
                /\ CURRENT_TELEMETRY[1].cpu_temp_celsius = Some(agg[i].core_temp_result[2].cpu_temp_avg)
                /\ CURRENT_TELEMETRY[1].cpu_temp_avg = Some(agg[i].core_temp_result[2].cpu_temp_avg)
                /\ CURRENT_TELEMETRY[1].cpu_temp_max = Some(agg[i].core_temp_result[2].cpu_temp_max)
                /\ CURRENT_TELEMETRY[1].gpu_temp_avg = agg[i].core_temp_result[2].gpu_temp_avg
                /\ CURRENT_TELEMETRY[1].gpu_temp_celsius =
                       IF agg[i].core_temp_result[2].gpu_temp_avg # None
                       THEN agg[i].core_temp_result[2].gpu_temp_avg
                       ELSE ExternalGpuTemp(i)
          /\ agg[i].core_temp_result = Err =>
                /\ CURRENT_TELEMETRY[1].cpu_temp_celsius = ExternalCpuTemp(i)
                /\ CURRENT_TELEMETRY[1].cpu_temp_avg = ExternalCpuTemp(i)
                /\ CURRENT_TELEMETRY[1].gpu_temp_celsius = ExternalGpuTemp(i)
                /\ CURRENT_TELEMETRY[1].gpu_temp_avg = ExternalGpuTemp(i)
                /\ CURRENT_TELEMETRY[1].cpu_temp_max = None

C15_Witness ==
    /\ LatestOf("prewarm")
    /\ agg["prewarm"].core_temp_result[1] = "Ok"
    /\ agg["prewarm"].core_temp_result[2].gpu_temp_avg = None
    /\ agg["prewarm"].outcome = JsonLine(MacmonRecord(Some(1), TRUE))
    /\ CURRENT_TELEMETRY[1].gpu_temp_celsius = Some(61)
    /\ CURRENT_TELEMETRY[1].gpu_temp_avg = None
    /\ CURRENT_TELEMETRY[1].cpu_temp_celsius = Some(50)

(* C16: the latest-snapshot cell changes only in the step that ends a
   monitor's tick, where it receives the snapshot that tick publishes; the
   job's merge leaves it alone; at every instant the cell is empty with no
   tick completed, or holds whole the snapshot of the last completed tick of
   the monitor that wrote it. *)
C16_CellWrittenByTicksOnly ==
    /\ [][ CURRENT_TELEMETRY' # CURRENT_TELEMETRY =>
             \E i \in Monitors :
                /\ TickEnds(i)
                /\ Published(i).source = i
                /\ Published(i).seq = agg'[i].ticks
                /\ Published(i).timestamp_ms = agg[i].timestamp ]_vars
    /\ [][ \A i \in Monitors : TickEnds(i) => Published(i).source = i ]_vars
    /\ [] ( IF CURRENT_TELEMETRY = None
            THEN \A i \in Monitors : agg[i].ticks = 0
            ELSE /\ CURRENT_TELEMETRY[1].model = None
                 /\ CURRENT_TELEMETRY[1].seq = agg[CURRENT_TELEMETRY[1].source].ticks
                 /\ CURRENT_TELEMETRY[1].cpu_power_watts
                        = ExternalPower(CURRENT_TELEMETRY[1].source)
                 /\ CURRENT_TELEMETRY[1].core_temperatures # None
                        <=> agg[CURRENT_TELEMETRY[1].source].core_temp_result[1] = "Ok" )

C16_Witness ==
    /\ inf_pc = "a_run"
    /\ tokens = 1
    /\ IsSome(CURRENT_TELEMETRY)
    /\ CURRENT_TELEMETRY[1].source = "main"
    /\ CURRENT_TELEMETRY[1].seq = 2
    /\ agg["prewarm"].ticks >= 1

(* the task has made its spawn attempt and has no macmon process *)
SpawnFailed(i) == agg[i].sampling_hz # 0 /\ agg[i].macmon_child = "none"
Starts(i) == agg[i].pc = "spawned" /\ agg'[i].pc = "loop_top"

(* C17: once a monitor's spawn of macmon has failed, no monitor of the session
   makes a spawn attempt, every snapshot published from then on carries no
   power, frequency or memory value, and the monitor goes on into its loop. *)
C17_NoSpawnAfterFailure ==
    [][ /\ (\E i \in Monitors : SpawnFailed(i)) =>
             \A j \in Monitors :
                /\ ~ Starts(j)
                /\ TickEnds(j) =>
                      /\ Published(j).cpu_power_watts = None
                      /\ Published(j).cpu_freq_mhz = None
                      /\ Published(j).ram_usage_gb = None
        /\ \A j \in Monitors :
              (Starts(j) /\ agg'[j].macmon_child = "none") => Running(agg'[j].pc) ]_vars

(* C18: a tick whose line from macmon does not parse publishes a snapshot
   without power, frequency, memory or external temperature values, leaves
   the macmon process and its pipe as they were and goes on to its sleep; a
   well-formed record read in the tick after it is used in full. *)
C18_MalformedLineDropped ==
    /\ [] ( \A i \in Monitors :
              (LatestOf(i) /\ agg[i].outcome = GarbageLine) =>
                 /\ agg[i].macmon_data = None
                 /\ agg[i].macmon_child = "running"
                 /\ CURRENT_TELEMETRY[1].cpu_power_watts = None
                 /\ CURRENT_TELEMETRY[1].cpu_freq_mhz = None
                 /\ CURRENT_TELEMETRY[1].ram_usage_gb = None
                 /\ agg[i].core_temp_result = Err =>
                       /\ CURRENT_TELEMETRY[1].cpu_temp_celsius = None
                       /\ CURRENT_TELEMETRY[1].gpu_temp_celsius = None )
    /\ [][ \A i \in Monitors :
             /\ (TickEnds(i) /\ agg'[i].outcome = GarbageLine)
                   => agg'[i].macmon_child = agg[i].macmon_child
             /\ (agg[i].outcome = GarbageLine /\ agg[i].pc = "sleeping" /\ ~agg[i].abort)
                   => ENABLED AggWake(i)
             /\ (TickEnds(i) /\ agg[i].outcome = GarbageLine)
                   => \A r \in MacmonRecords :
                         agg'[i].outcome = << "line", "json", r >>
                         => /\ Published(i).cpu_power_watts = r.cpu_power
                            /\ r.pcpu_usage # None
                                  => Published(i).cpu_freq_mhz = Some(r.pcpu_usage[1][1])
                            /\ r.memory # None
                                  => Published(i).ram_usage_gb = Some(1) ]_vars

C18_Witness ==
    /\ LatestOf("prewarm")
    /\ agg["prewarm"].ticks = 1
    /\ agg["prewarm"].outcome = GarbageLine
    /\ agg["prewarm"].macmon_child = "running"
    /\ CURRENT_TELEMETRY[1].cpu_power_watts = None

(* the requested frequency brought into [0.1, 50] Hz, in tenths of a hertz *)
ExpectedHz ==
    LET requested == config.telemetry_sampling_hz
    IN  IF requested = None THEN 10
        ELSE IF requested[1] < 1 THEN 1
        ELSE IF requested[1] > 500 THEN 500
        ELSE requested[1]
Started == { i \in Monitors : agg[i].pc # "unspawned" }
SpawningDone ==
    main_pc \in {"spawn_emitter", "spawn_inference", "await_inference",
                 "teardown_signal", "teardown_abort", "clear_global", "returned"}

(* C19: a session starts no monitor with telemetry disabled, the warm-up
   monitor alone when the clamped desired frequency is 1.0 Hz, and otherwise
   the warm-up monitor and then the main monitor at the desired frequency,
   the warm-up monitor's stop flag being set before the main monitor is
   started; alone, the warm-up monitor is not told to stop before teardown. *)
C19_InstancesStarted ==
    /\ SpawningDone =>
          Cardinality(Started) = IF disable_telemetry THEN 0
                                 ELSE IF ExpectedHz = 10 THEN 1 ELSE 2
    /\ Cardinality(Started) = 1 => Started = {"prewarm"}
    /\ "main" \in Started =>
          /\ prewarm_stop_signal
          /\ agg["main"].sampling_hz \in {0, ExpectedHz}
    /\ ( /\ ExpectedHz = 10
         /\ main_pc \in {"spawn_emitter", "spawn_inference", "await_inference"} )
       => ~prewarm_stop_signal

C19_Witness ==
    /\ config.telemetry_sampling_hz = Some(0)
    /\ main_pc = "await_inference"
    /\ Started = Monitors
    /\ agg["main"].sampling_hz = 1
    /\ agg["main"].ticks >= 1

(* C20: whatever frequency is requested, absent, zero, negative or above the
   range, the session starts its monitor, which runs at the request brought
   into [0.1, 50] Hz with a tick interval of 20 to 10000 ms. *)
C20_FrequencyClamped ==
    /\ (SpawningDone /\ ~disable_telemetry) =>
          (IF ExpectedHz = 10 THEN "prewarm" ELSE "main") \in Started
    /\ \A i \in Monitors :
          agg[i].sampling_hz # 0 =>
             /\ agg[i].sampling_hz = IF i = "prewarm" THEN 10 ELSE ExpectedHz
             /\ agg[i].sampling_hz >= 1 /\ agg[i].sampling_hz <= 500
             /\ agg[i].sampling_interval_ms >= 20
             /\ agg[i].sampling_interval_ms <= 10000
             /\ agg[i].sampling_interval_ms * agg[i].sampling_hz <= 10000
             /\ (agg[i].sampling_interval_ms + 1) * agg[i].sampling_hz > 10000

C20_Witness ==
    /\ config.telemetry_sampling_hz = Some(600)
    /\ agg["main"].sampling_hz = 500
    /\ agg["main"].sampling_interval_ms = 20
    /\ agg["main"].ticks = 2
    /\ agg["main"].timestamp = 20

-----------------------------------------------------------------------------
(* PowerCalculator *)

PowerOf(telemetry, d) ==
    CASE d = "cpu" -> telemetry.cpu_power_watts
      [] d = "gpu" -> telemetry.gpu_power_watts
      [] d = "ane" -> telemetry.ane_power_watts

EnergyOf(calc, d) ==
    CASE d = "cpu" -> calc.cumulative_cpu_energy_wh
      [] d = "gpu" -> calc.cumulative_gpu_energy_wh
      [] d = "ane" -> calc.cumulative_ane_energy_wh

(* the step is a call of update_with_telemetry / of reset *)
UpdateCall == calculator_call' = "update_with_telemetry"
ResetCall == calculator_call' = "reset"

(* the domain carries a value in the previous sample and in the sample passed *)
OnBothSides(d) ==
    /\ IsSome(calculator.previous_telemetry)
    /\ IsSome(PowerOf(calculator.previous_telemetry[1], d))
    /\ IsSome(PowerOf(telemetry_out'[1], d))

(* the domain gains the trapezoid of the interval:
   gain = (P_prev + P_cur) * (t_cur - t_prev) / 3,600,000 / 2 Wh *)
GainsTrapezoid(d) ==
    LET prev == calculator.previous_telemetry[1]
        cur == telemetry_out'[1]
    IN  /\ (EnergyOf(calculator', d).wh4 - EnergyOf(calculator, d).wh4) * (MS_PER_HOUR * 2)
             = Wh(1) * (PowerOf(prev, d)[1] + PowerOf(cur, d)[1]) * (cur.timestamp_ms - prev.timestamp_ms)
        /\ EnergyOf(calculator', d).wraps = EnergyOf(calculator, d).wraps

(* C21: in every call of update_with_telemetry, each power domain that carries
   a value in both the previous and the passed sample grows its cumulative
   energy by (P_prev + P_cur) * (t_cur - t_prev) / 3,600,000 / 2 Wh, whatever
   the other domains do: 10 W then 20 W one hour apart add 15 Wh, a constant
   10 W over one hour adds 10 Wh *)
C21_TrapezoidPerDomain ==
    [][ UpdateCall =>
          /\ \A d \in Domains : OnBothSides(d) => GainsTrapezoid(d)
          /\ \A p \in {10, 20} :
                ( /\ OnBothSides("cpu")
                  /\ calculator.previous_telemetry[1].cpu_power_watts = Some(10)
                  /\ telemetry_out'[1].cpu_power_watts = Some(p)
                  /\ telemetry_out'[1].timestamp_ms
                       = calculator.previous_telemetry[1].timestamp_ms + MS_PER_HOUR )
                => calculator'.cumulative_cpu_energy_wh
                     = f64_add(calculator.cumulative_cpu_energy_wh, Energy(Wh((10 + p) \div 2))) ]_vars

(* 10 W at 0 h, then 20 W at 1 h: 15 Wh *)
C21_Witness ==
    /\ calculator_call = "update_with_telemetry"
    /\ calculator.session_start_timestamp = Some(0)
    /\ telemetry_out[1].timestamp_ms = MS_PER_HOUR
    /\ telemetry_out[1].cpu_power_watts = Some(20)
    /\ telemetry_out[1].cpu_energy_wh = Some(Energy(Wh(15)))
    /\ telemetry_out[1].gpu_energy_wh = Some(Energy(Wh(10)))

(* the domain lacks a value in the previous sample (or there is none) or in the
   sample passed *)
MissingOnASide(d) == ~OnBothSides(d)

(* C22: a call of update_with_telemetry leaves the cumulative energy of every
   domain whose power is missing in the previous or in the passed sample
   unchanged, and in that same call every domain present on both sides gains
   its trapezoid *)
C22_MissingDomainUnchanged ==
    [][ UpdateCall =>
          \A d \in Domains :
              MissingOnASide(d) =>
                  /\ EnergyOf(calculator', d) = EnergyOf(calculator, d)
                  /\ \A o \in Domains \ {d} : OnBothSides(o) => GainsTrapezoid(o) ]_vars

(* the latest call had no GPU value while the previous sample had one: the GPU
   energy stayed at the 5 Wh gained before, the CPU energy went on to 20 Wh *)
C22_Witness ==
    /\ calculator_call = "update_with_telemetry"
    /\ telemetry_out[1].gpu_power_watts = None
    /\ telemetry_out[1].cpu_power_watts = Some(20)
    /\ telemetry_out[1].gpu_energy_wh = Some(Energy(Wh(5)))
    /\ telemetry_out[1].cpu_energy_wh = Some(Energy(Wh(20)))

(* C23: reset() zeroes the three cumulative energies and clears the previous
   sample and the session start, whatever was accumulated; the first
   update_with_telemetry after new() or reset() returns 0 Wh for every domain
   and for the total, whatever the power values *)
C23_ResetThenZero ==
    [][ /\ ResetCall =>
            /\ \A d \in Domains : EnergyOf(calculator', d) = Energy(0)
            /\ calculator'.previous_telemetry = None
            /\ calculator'.session_start_timestamp = None
        /\ (UpdateCall /\ calculator_call \in {"new", "reset"}) =>
            /\ telemetry_out'[1].cpu_energy_wh = Some(Energy(0))
            /\ telemetry_out'[1].gpu_energy_wh = Some(Energy(0))
            /\ telemetry_out'[1].ane_energy_wh = Some(Energy(0))
            /\ telemetry_out'[1].total_energy_wh = Some(Energy(0)) ]_vars

(* a reset after 15 Wh had been accumulated *)
C23_Witness ==
    /\ calculator_call = "reset"
    /\ IsSome(telemetry_out)
    /\ telemetry_out[1].total_energy_wh = Some(Energy(Wh(15)))
    /\ calculator = PowerCalculator_new

-----------------------------------------------------------------------------
(* Apple Silicon detection *)

(* the platform's two counts are there and pass the bounds of tier 1 *)
DynamicAccepted ==
    /\ IsSome(sysctl.perflevel0) /\ IsSome(sysctl.perflevel1)
    /\ sysctl.perflevel0[1] > 0 /\ sysctl.perflevel1[1] > 0
    /\ sysctl.perflevel0[1] <= 24 /\ sysctl.perflevel1[1] <= 8
    /\ sysctl.perflevel0[1] + sysctl.perflevel1[1] <= 32

(* the table rows matching the chip model and total_cores exactly *)
TableMatches ==
    { c \in APPLE_SILICON_CONFIGS :
        /\ IsSome(get_apple_chip_name(sysctl))
        /\ c[1] = get_apple_chip_name(sysctl)[1]
        /\ c[2] = total_cores }

Split(info) == << info.p_cores, info.e_cores >>

(* C24: the detection returns the answer of the first tier that succeeds, in
   the order dynamic query (accepted only when both counts are > 0,
   performance <= 24, efficiency <= 8 and their sum <= 32), table lookup (only
   on an exact match of chip model and total_cores), heuristic (always), tagged
   with that tier; asking again with the same platform answers and total_cores
   gives the same result *)
C24_FirstTierThatSucceeds ==
    /\ [](IsSome(silicon_info) =>
            LET info == silicon_info[1]
            IN  /\ info.total_cores = total_cores
                /\ IF DynamicAccepted
                   THEN /\ info.detection_method = "SysctlDynamic"
                        /\ Split(info) = << sysctl.perflevel0[1], sysctl.perflevel1[1] >>
                   ELSE IF TableMatches # {}
                   THEN /\ info.detection_method = "ChipLookup"
                        /\ \E c \in TableMatches : Split(info) = << c[3], c[4] >>
                   ELSE /\ info.detection_method = "TotalCountHeuristic"
                        /\ Split(info) = fallback_core_count_detection(total_cores))
    /\ [][IsSome(silicon_info) => silicon_info' = silicon_info]_vars

(* the platform reports 25 performance cores: the dynamic query is rejected
   and the table answers for an M3 Max with 14 cores *)
C24_Witness ==
    /\ IsSome(silicon_info)
    /\ sysctl.perflevel0 = Some(25) /\ sysctl.perflevel1 = Some(4)
    /\ silicon_info[1].detection_method = "ChipLookup"
    /\ Split(silicon_info[1]) = << 10, 4 >>

(* C25: every result of the detection has performance + efficiency <=
   total_cores, performance <= 24 and efficiency <= 8 *)
C25_TopologyWithinBounds ==
    IsSome(silicon_info) =>
        /\ silicon_info[1].p_cores + silicon_info[1].e_cores <= silicon_info[1].total_cores
        /\ silicon_info[1].p_cores <= 24
        /\ silicon_info[1].e_cores <= 8

-----------------------------------------------------------------------------
(* read_core_temperatures *)

(* the client cannot be created or the services cannot be listed *)
EnumerationFails == ~iohid.client \/ iohid.services = None

(* the listed sensors whose reading lies strictly inside (0, 150) *)
UsableSensors ==
    { i \in 1..Len(iohid.services[1]) :
        /\ IsSome(iohid.services[1][i].event)
        /\ iohid.services[1][i].event[1] > 0
        /\ iohid.services[1][i].event[1] < 150 }

(* those of them that are neither GPU nor battery sensors *)
UsableCpuSensors ==
    { i \in UsableSensors :
        Category(iohid.services[1][i].name) \notin { "gpu_temps", "battery_sensors" } }

(* C26: read_core_temperatures returns an error only when the enumeration
   fails or no reading lies strictly inside (0, 150), and returns a snapshot
   whenever a usable reading remains *)
C26_ErrorOnlyWithoutUsableReading ==
    IsSome(core_temperature_data) =>
        ( core_temperature_data[1] = Err <=> (EnumerationFails \/ UsableSensors = {}) )

(* C26 as the code has it: an error exactly when the enumeration fails or no
   reading strictly inside (0, 150) comes from a sensor other than a GPU or a
   battery sensor; a snapshot whenever such a reading remains *)
C26_ErrorOnlyWithoutCpuReading ==
    IsSome(core_temperature_data) =>
        ( core_temperature_data[1] = Err <=> (EnumerationFails \/ UsableCpuSensors = {}) )

(* a GPU sensor reads 45 degrees, the performance-area sensor reads 150: error *)
C26_Witness ==
    /\ IsSome(core_temperature_data)
    /\ core_temperature_data[1] = Err
    /\ ~EnumerationFails
    /\ \E i \in UsableSensors : iohid.services[1][i].name = "GPU MTR Temp Sensor0"
    /\ \E i \in 1..Len(iohid.services[1]) :
          /\ iohid.services[1][i].name = "pACC MTR Temp Sensor0"
          /\ iohid.services[1][i].event = Some(150)

-----------------------------------------------------------------------------
(* get_cpu_utilization *)

(* C27: with n enumerated cores and e efficiency cores in the topology, the
   efficiency array holds the usage of the first min(e, n) cores, the
   performance array that of all the others (n entries together), the overall
   percentage is the mean of the n usages, and without any core the result is
   zeros *)
C27_PartitionAndMean ==
    IsSome(cpu_utilization) =>
        LET cpus == cpu_monitor.cpus
            n == Len(cpus)
            k == Min(cpu_monitor.e_core_count, n)
            r == cpu_utilization[1]
        IN  /\ r.e_core_utils = SubSeq(cpus, 1, k)
            /\ r.p_core_utils = SubSeq(cpus, k + 1, n)
            /\ Len(r.e_core_utils) + Len(r.p_core_utils) = n
            /\ n > 0 => r.overall_utilization = Finite((SumSeq(cpus) * 100) \div n)
            /\ n = 0 => r.overall_utilization = Finite(0)

-----------------------------------------------------------------------------
(* TemperatureHistory *)

(* the last n elements of a sequence, in order *)
LastN(seq, n) == SubSeq(seq, Len(seq) - n + 1, Len(seq))

(* C28: after any sequence of add_reading calls on a history of capacity N the
   buffer holds at most N readings: the most recently added min(count, N)
   ones, in insertion order *)
C28_BoundedFifo ==
    /\ Len(temp_history.readings) <= temp_history.max_size
    /\ temp_history.readings = LastN(added, Min(Len(added), temp_history.max_size))

(* four readings were added to a history of capacity 2: the first two are gone *)
C28_Witness ==
    /\ temp_history.max_size = 2
    /\ Len(added) = 4
    /\ Len(temp_history.readings) = 2
    /\ temp_history.readings[1] = added[3]
    /\ added[1][2] # added[3][2]

(* the readings stored in the window of the latest get_trend, and their delta *)
WindowReadings ==
    LET now == added[Len(added)][1]
    IN  SelectSeq(temp_history.readings, LAMBDA r : now - r[1] <= thermal_trend[1].window_ms)
Delta == WindowReadings[Len(WindowReadings)][2] - WindowReadings[1][2]
Trend == thermal_trend[1].trend

(* C29: with delta = last - first reading of the window (at least 3 readings
   in it), the trend is Rapid when delta > 5, Heating when 1 < delta <= 5,
   Rapid when delta < -5, Cooling when -5 <= delta < -1 and Stable otherwise:
   5 is Heating, -5 is Cooling, 1 and -1 are Stable *)
C29_TrendThresholds ==
    (IsSome(thermal_trend) /\ Len(WindowReadings) >= 3) =>
        /\ Delta > 5 => Trend = "Rapid"
        /\ (1 < Delta /\ Delta <= 5) => Trend = "Heating"
        /\ Delta < -5 => Trend = "Rapid"
        /\ (-5 <= Delta /\ Delta < -1) => Trend = "Cooling"
        /\ (-1 <= Delta /\ Delta <= 1) => Trend = "Stable"
        /\ Delta = 5 => Trend = "Heating"
        /\ Delta = -5 => Trend = "Cooling"
        /\ Delta \in {1, -1} => Trend = "Stable"

(* three readings in the window rise by exactly 5 degrees: Heating *)
C29_Witness ==
    /\ IsSome(thermal_trend)
    /\ Len(WindowReadings) >= 3
    /\ Delta = 5
    /\ Trend = "Heating"

(* C30: get_trend(window_ms) is Stable whenever fewer than 3 stored readings
   have a timestamp within window_ms of the timestamp of the reading added
   last, whatever the temperatures *)
C30_StableBelowThreeInWindow ==
    (IsSome(thermal_trend) /\ added # << >> /\ Len(WindowReadings) < 3) => Trend = "Stable"

(* three readings are stored, 6 degrees apart, but only two lie in the window *)
C30_Witness ==
    /\ IsSome(thermal_trend)
    /\ Len(temp_history.readings) >= 3
    /\ Len(WindowReadings) = 2
    /\ temp_history.readings[Len(temp_history.readings)][2] - temp_history.readings[1][2] = 6
    /\ Trend = "Stable"

-----------------------------------------------------------------------------
(* PowerCalculator, continued *)

(* the two samples agree on the timestamp and on the three power values *)
SameSample(a, b) ==
    /\ a.timestamp_ms = b.timestamp_ms
    /\ \A d \in Domains : PowerOf(a, d) = PowerOf(b, d)

(* C31: after every call of update_with_telemetry the stored previous sample
   is the sample just passed, with or without power values; so a sample
   lacking a domain's power adds nothing to that domain, neither in the call
   that passes it (the interval ending at it) nor in the next call (the
   interval starting at it) *)
C31_PreviousAlwaysReplaced ==
    [][ UpdateCall =>
          /\ IsSome(calculator'.previous_telemetry)
          /\ SameSample(calculator'.previous_telemetry[1], telemetry_in'[1])
          /\ \A d \in Domains :
                PowerOf(telemetry_in'[1], d) = None
                    => EnergyOf(calculator', d) = EnergyOf(calculator, d)
          /\ \A d \in Domains :
                (IsSome(telemetry_in) /\ calculator_call = "update_with_telemetry"
                 /\ PowerOf(telemetry_in[1], d) = None)
                    => EnergyOf(calculator', d) = EnergyOf(calculator, d) ]_vars

(* a sample without any power value was passed after 15 Wh of CPU energy and
   is the stored previous sample *)
C31_Witness ==
    /\ calculator_call = "update_with_telemetry"
    /\ \A d \in Domains : PowerOf(telemetry_in[1], d) = None
    /\ SameSample(calculator.previous_telemetry[1], telemetry_in[1])
    /\ calculator.cumulative_cpu_energy_wh = Energy(Wh(15))

(* C34: every snapshot returned by update_with_telemetry carries the four
   energy fields; the three domain fields are the calculator's cumulative
   values after the call and total_energy_wh is their sum *)
C34_EnergyFieldsFilled ==
    calculator_call = "update_with_telemetry" =>
        /\ IsSome(telemetry_out)
        /\ telemetry_out[1].cpu_energy_wh = Some(calculator.cumulative_cpu_energy_wh)
        /\ telemetry_out[1].gpu_energy_wh = Some(calculator.cumulative_gpu_energy_wh)
        /\ telemetry_out[1].ane_energy_wh = Some(calculator.cumulative_ane_energy_wh)
        /\ IsSome(telemetry_out[1].total_energy_wh)
        /\ telemetry_out[1].total_energy_wh[1].wh4
             = calculator.cumulative_cpu_energy_wh.wh4 + calculator.cumulative_gpu_energy_wh.wh4
               + calculator.cumulative_ane_energy_wh.wh4
        /\ telemetry_out[1].total_energy_wh[1].wraps
             = calculator.cumulative_cpu_energy_wh.wraps + calculator.cumulative_gpu_energy_wh.wraps
               + calculator.cumulative_ane_energy_wh.wraps

(* 15 Wh of CPU, 10 Wh of GPU and 5 Wh of ANE energy: 30 Wh in total *)
C34_Witness ==
    /\ calculator_call = "update_with_telemetry"
    /\ telemetry_out[1].cpu_energy_wh = Some(Energy(Wh(15)))
    /\ telemetry_out[1].gpu_energy_wh = Some(Energy(Wh(10)))
    /\ telemetry_out[1].ane_energy_wh = Some(Energy(Wh(5)))
    /\ telemetry_out[1].total_energy_wh = Some(Energy(Wh(30)))

(* C39: in every call that has a previous sample, the subtraction
   telemetry.timestamp_ms - prev.timestamp_ms does not underflow, whatever the
   two timestamps are, and the call returns a snapshot *)
C39_NoUnderflow ==
    [][ (calculator_call' \in { "update_with_telemetry", "panicked" }
         /\ IsSome(calculator.previous_telemetry))
            => /\ ~ u64_sub(telemetry_in'[1].timestamp_ms,
                            calculator.previous_telemetry[1].timestamp_ms).wrapped
               /\ IsSome(telemetry_out') ]_vars

(* the totals the heuristic tier knows, each with its split *)
KnownSplits ==
    { << 8, 4, 4 >>, << 9, 3, 6 >>, << 10, 4, 6 >>, << 11, 5, 6 >>, << 12, 8, 4 >>,
      << 14, 10, 4 >>, << 16, 12, 4 >>, << 20, 16, 4 >>, << 24, 16, 8 >>,
      << 28, 20, 8 >>, << 32, 24, 8 >> }

(* C33: a result of the heuristic tier has the fixed split of its total when
   the total is one of 8, 9, 10, 11, 12, 14, 16, 20, 24, 28, 32, and
   performance = floor(total * 3 / 5), efficiency = total - performance for
   every other total; in both cases performance + efficiency = total *)
C33_HeuristicSplit ==
    (IsSome(silicon_info) /\ silicon_info[1].detection_method = "TotalCountHeuristic") =>
        LET info == silicon_info[1]
            known == { k \in KnownSplits : k[1] = total_cores }
        IN  /\ known # {} => \A k \in known : Split(info) = << k[2], k[3] >>
            /\ known = {} => /\ info.p_cores = (total_cores * 3) \div 5
                             /\ info.e_cores = total_cores - info.p_cores
            /\ info.p_cores + info.e_cores = total_cores
            /\ \A a, b \in KnownSplits : a[1] = b[1] => a = b
            /\ \A k \in KnownSplits : k[2] + k[3] = k[1]

(* 21 cores are not in the table: 12 performance and 9 efficiency cores *)
C33_Witness ==
    /\ IsSome(silicon_info)
    /\ silicon_info[1].detection_method = "TotalCountHeuristic"
    /\ total_cores = 21
    /\ Split(silicon_info[1]) = << 12, 9 >>

(* 28 cores are in the table: 20 performance and 8 efficiency cores *)
C33_WitnessKnown ==
    /\ IsSome(silicon_info)
    /\ silicon_info[1].detection_method = "TotalCountHeuristic"
    /\ total_cores = 28
    /\ Split(silicon_info[1]) = << 20, 8 >>

(* the fields with_inference_data takes from the clock and from its arguments *)
InferenceFields == { "timestamp_ms", "ttft_ms", "current_tps", "instantaneous_tps", "model" }

(* C40: the snapshot returned by with_inference_data has the base's power,
   temperature, frequency, memory, utilization, generation-time and energy
   fields (every field but five); its timestamp is the current time and its
   ttft, throughput, instantaneous throughput and model label are the
   arguments; the base, which is the latest-snapshot cell's content, is not
   modified *)
C40_MergeFrame ==
    /\ [](IsSome(merged) =>
            LET out == merged[1]
                base == base_telemetry[1]
                a == inference_args[1]
            IN  /\ DOMAIN out = DOMAIN base
                /\ \A f \in DOMAIN base \ InferenceFields : out[f] = base[f]
                /\ out.timestamp_ms = a.now
                /\ out.ttft_ms = a.ttft_ms
                /\ out.current_tps = a.current_tps
                /\ out.instantaneous_tps = a.instantaneous_tps
                /\ out.model = a.model)
    /\ [][base_telemetry' = base_telemetry]_vars

(* a filled snapshot merged earlier with model A's metrics, merged again with
   None for ttft and throughput and label B *)
C40_Witness ==
    /\ IsSome(merged)
    /\ base_telemetry[1].model = Some("A") /\ base_telemetry[1].ttft_ms = Some(100)
    /\ base_telemetry[1].total_energy_wh = Some(16)
    /\ base_telemetry[1].timestamp_ms = 2000
    /\ merged[1].model = Some("B") /\ merged[1].ttft_ms = None
    /\ merged[1].total_energy_wh = Some(16) /\ merged[1].cpu_temp_max = Some(70)
    /\ merged[1].timestamp_ms = 1500

(* the events a step appends *)
Emitted == SubSeq(events', Len(events) + 1, Len(events'))
StatesOf(evs) == [ i \in 1..Len(evs) |-> evs[i].state ]

(* C32: within one poll of the cooldown the cancellation check comes first:
   a poll that finds the flag set emits canceled and leaves the loop without
   a read and without a progress event.  Otherwise the temperature is read,
   the progress event is emitted, then completion is checked, then the
   timeout: a reading at or below the threshold ends with complete also when
   300 s have elapsed, a timeout follows only a progress event whose reading
   is above the threshold, and every complete event directly follows a
   progress event with the same current reading *)
C32_PollOrder ==
    /\ [](\A i \in 1..Len(events) :
            /\ events[i].state = "complete" =>
                  /\ i > 1
                  /\ events[i - 1].state = "progress"
                  /\ events[i - 1].current_c = events[i].current_c
            /\ events[i].state = "timeout" =>
                  /\ i > 1
                  /\ events[i - 1].state = "progress"
                  /\ events[i - 1].current_c[1] > events[i - 1].threshold_c[1]
                  /\ events[i - 1].elapsed_s[1] >= MAX_WAIT_SECS)
    /\ [][ /\ (inf_pc = "cd_check" /\ inf_pc' # "cd_check") =>
                IF StopRequested
                THEN /\ StatesOf(Emitted) = << "canceled" >>
                     /\ inf_pc' = "b_begin"
                     /\ polls' = polls /\ cooldown_read' = cooldown_read
                ELSE /\ Emitted = << >>
                     /\ inf_pc' = "cd_read"
           /\ (inf_pc = "cd_read" /\ inf_pc' # "cd_read") =>
                /\ polls' = polls + 1
                /\ cooldown_read' # Err =>
                     /\ Len(Emitted) >= 1
                     /\ Emitted[1].state = "progress"
                     /\ Emitted[1].current_c = Some(cooldown_read'[2])
                     /\ cooldown_read'[2] <= Threshold =>
                            /\ StatesOf(Emitted) = << "progress", "complete" >>
                            /\ inf_pc' = "b_begin"
                     /\ (cooldown_read'[2] > Threshold /\ elapsed >= MAX_WAIT_SECS) =>
                            /\ StatesOf(Emitted) = << "progress", "timeout" >>
                            /\ inf_pc' = "b_begin"
                     /\ (cooldown_read'[2] > Threshold /\ elapsed < MAX_WAIT_SECS) =>
                            /\ StatesOf(Emitted) = << "progress" >>
                            /\ inf_pc' = "cd_sleep" ]_vars

(* a poll made 300 s or more after the wait began reads a temperature at the
   threshold: it ends with complete *)
C32_Witness ==
    /\ Len(events) >= 2
    /\ events[Len(events)].state = "complete"
    /\ events[Len(events)].elapsed_s[1] >= MAX_WAIT_SECS
    /\ events[Len(events)].current_c = events[Len(events)].threshold_c
    /\ events[Len(events) - 1].state = "progress"

(* C35: when the task that runs the two jobs has returned, every started
   cooldown event is followed by a complete, canceled or timeout event,
   whatever the outcome of the first job *)
C35_StartedReachesTerminal ==
    inf_pc = "done" =>
        \A i \in 1..Len(events) :
            events[i].state = "started" =>
                \E j \in (i + 1)..Len(events) : events[j].state \in Terminal

(* the monitor that samples during the jobs of the session: generation.rs 97-113 *)
SessionMonitor == IF RestartAtDesired THEN "main" ELSE "prewarm"

(* a step of the inference task that starts a job, sending the reset command first *)
SendsReset == inf_pc \in { "a_reset", "b_begin" } /\ inf_pc' \in { "a_run", "b_run" }

(* C36: a reset command sent in a session with telemetry is pending in the
   receiver of the session's monitor right after the send, on top of the
   commands already pending there, also when the monitor task has not yet
   subscribed *)
C36_ResetNeverLost ==
    [][ (SendsReset /\ ~ disable_telemetry) =>
            /\ IsSome(command_rx'[SessionMonitor])
            /\ command_rx'[SessionMonitor][1] = UnwrapOr(command_rx[SessionMonitor], 0) + 1 ]_vars

(* run_generation_turn is between the installation of its flag and the
   emptying of the slot at its teardown *)
SessionInstalled == main_pc \notin { "start", "returned" }

(* a step of the stop_generation command: a flag is set and neither session moves *)
StopCommand ==
    /\ main_pc' = main_pc /\ other_pc' = other_pc
    /\ stop_signal' # stop_signal \/ other_stop_signal' # other_stop_signal

(* C37: from the installation of the session's flag until the session's
   teardown the slot holds that session's flag, also when another session
   starts or finishes in between, so that stop_generation sets the flag the
   session's cooldown wait and token loop read *)
C37_SlotHoldsSessionFlag ==
    /\ [](SessionInstalled => GLOBAL_STOP_SIGNAL = Some("session"))
    /\ [][ (SessionInstalled /\ StopCommand) => (stop_signal' /\ StopRequested') ]_vars

(* every flag, task and slot of the session is as the teardown leaves it *)
TornDown ==
    /\ stop_signal
    /\ ~ disable_telemetry => prewarm_stop_signal
    /\ \A i \in Monitors : agg[i].pc # "unspawned" => agg[i].abort
    /\ event_handle \in { "none", "aborted" }
    /\ GLOBAL_STOP_SIGNAL = None

(* C38: when run_generation_turn has returned, after an inference that
   succeeded, failed or panicked, both stop flags are set, every monitor task
   and the emitter task have been aborted and the slot is empty; no snapshot
   of the session is published from then on *)
C38_QuietAfterReturn ==
    /\ [](main_pc = "returned" => TornDown)
    /\ [][ main_pc = "returned" => CURRENT_TELEMETRY' = CURRENT_TELEMETRY ]_vars

(* the first half of C38 alone *)
C38_TornDownAtReturn == main_pc = "returned" => TornDown

(* the inference panicked and run_generation_turn has returned *)
C38_WitnessPanic == main_pc = "returned" /\ result = "Panicked" /\ ~ disable_telemetry /\ TornDown

====
